---- MODULE Spec2Model ----
(***************************************************************************)
(* A model of the PTZ camera control client: the HTTP authentication       *)
(* negotiation with its per-host cache (authGet / authGetFresh and the     *)
(* httpGet wrappers) and the command handlers built on top of it.          *)
(*                                                                         *)
(* JavaScript strings whose characters the code inspects (header scheme    *)
(* words, cookies, base64 text) are sequences of one-character strings.    *)
(* A JavaScript object with optional keys is a function whose DOMAIN is    *)
(* the set of keys present; a Map is a function whose DOMAIN is its keys.  *)
(***************************************************************************)
EXTENDS Integers, Sequences, FiniteSets, TLC

(* ------------------------------------------------------------------ *)
(* Strings                                                             *)
(* ------------------------------------------------------------------ *)

\* The printable ASCII characters, code 32 (space) to 126 (~), in code order
\* (code 96 is written "grave").
Printable ==
  << " ", "!", "\"", "#", "$", "%", "&", "'", "(", ")", "*", "+", ",", "-", ".", "/",
     "0", "1", "2", "3", "4", "5", "6", "7", "8", "9", ":", ";", "<", "=", ">", "?",
     "@", "A", "B", "C", "D", "E", "F", "G", "H", "I", "J", "K", "L", "M", "N", "O",
     "P", "Q", "R", "S", "T", "U", "V", "W", "X", "Y", "Z", "[", "\\", "]", "^", "_",
     "grave", "a", "b", "c", "d", "e", "f", "g", "h", "i", "j", "k", "l", "m", "n", "o",
     "p", "q", "r", "s", "t", "u", "v", "w", "x", "y", "z", "{", "|", "}", "~" >>

\* The base64 alphabet in value order (0..63).
B64Alphabet ==
  << "A", "B", "C", "D", "E", "F", "G", "H", "I", "J", "K", "L", "M", "N", "O", "P",
     "Q", "R", "S", "T", "U", "V", "W", "X", "Y", "Z", "a", "b", "c", "d", "e", "f",
     "g", "h", "i", "j", "k", "l", "m", "n", "o", "p", "q", "r", "s", "t", "u", "v",
     "w", "x", "y", "z", "0", "1", "2", "3", "4", "5", "6", "7", "8", "9", "+", "/" >>

Uppers ==
  << "A", "B", "C", "D", "E", "F", "G", "H", "I", "J", "K", "L", "M",
     "N", "O", "P", "Q", "R", "S", "T", "U", "V", "W", "X", "Y", "Z" >>

Lowers ==
  << "a", "b", "c", "d", "e", "f", "g", "h", "i", "j", "k", "l", "m",
     "n", "o", "p", "q", "r", "s", "t", "u", "v", "w", "x", "y", "z" >>

\* What a byte outside printable ASCII decodes to (a control character or U+FFFD).
NonPrintable == "?nonprintable"

\* charCodeAt for a printable character.
CharCode(c) == 31 + (CHOOSE i \in 1..Len(Printable) : Printable[i] = c)

\* String.fromCharCode for one decoded byte.
ByteChar(b) == IF b >= 32 /\ b <= 126 THEN Printable[b - 31] ELSE NonPrintable

ToLowerChar(c) ==
  IF \E i \in 1..26 : Uppers[i] = c
  THEN Lowers[CHOOSE i \in 1..26 : Uppers[i] = c]
  ELSE c

ToUpperChar(c) ==
  IF \E i \in 1..26 : Lowers[i] = c
  THEN Uppers[CHOOSE i \in 1..26 : Lowers[i] = c]
  ELSE c

\* String.prototype.toLowerCase / toUpperCase
ToLowerCase(s) == [i \in 1..Len(s) |-> ToLowerChar(s[i])]

ToUpperCase(s) == [i \in 1..Len(s) |-> ToUpperChar(s[i])]

\* String.prototype.startsWith
StartsWith(s, p) == Len(s) >= Len(p) /\ SubSeq(s, 1, Len(p)) = p

\* String.prototype.indexOf for one character, 1-based; 0 when absent.
IndexOf(s, c) ==
  IF \E i \in 1..Len(s) : s[i] = c
  THEN CHOOSE i \in 1..Len(s) : s[i] = c /\ \A j \in 1..(i - 1) : s[j] # c
  ELSE 0

\* s.split(c)[0]: the text before the first c, all of s when there is none.
BeforeFirst(s, c) ==
  IF IndexOf(s, c) = 0 THEN s ELSE SubSeq(s, 1, IndexOf(s, c) - 1)

\* s.split(c).slice(1).join(c): the text after the first c, empty when there is none.
AfterFirst(s, c) ==
  IF IndexOf(s, c) = 0 THEN << >> ELSE SubSeq(s, IndexOf(s, c) + 1, Len(s))

\* The template interpolation of a possibly missing key of an object.
S_undefined == <<"u", "n", "d", "e", "f", "i", "n", "e", "d">>

Interp(obj, k) == IF k \in DOMAIN obj THEN obj[k] ELSE S_undefined

\* JavaScript truthiness of obj[k] for a string-valued key.
Truthy(obj, k) == k \in DOMAIN obj /\ obj[k] # << >>

(* ------------------------------------------------------------------ *)
(* base64 (Buffer.from(s, 'base64') and buf.toString('base64'))        *)
(* ------------------------------------------------------------------ *)

\* The value of a base64 character, -1 for a character outside the alphabet.
\* '-' and '_' are accepted as the URL-safe forms of '+' and '/'.
B64Val(c) ==
  IF \E i \in 1..64 : B64Alphabet[i] = c
  THEN (CHOOSE i \in 1..64 : B64Alphabet[i] = c) - 1
  ELSE IF c = "-" THEN 62 ELSE IF c = "_" THEN 63 ELSE -1

RECURSIVE B64Symbols(_)
\* The 6-bit values of the text up to its first '=', characters outside the
\* alphabet skipped: the decoder never fails, it drops what it cannot read.
B64Symbols(s) ==
  IF s = << >> \/ Head(s) = "=" THEN << >>
  ELSE IF B64Val(Head(s)) < 0 THEN B64Symbols(Tail(s))
  ELSE <<B64Val(Head(s))>> \o B64Symbols(Tail(s))

RECURSIVE B64Bytes(_)
\* Four 6-bit values give three bytes; a trailing two give one, three give two.
B64Bytes(v) ==
  IF Len(v) < 2 THEN << >>
  ELSE IF Len(v) = 2 THEN << v[1] * 4 + (v[2] \div 16) >>
  ELSE IF Len(v) = 3
    THEN << v[1] * 4 + (v[2] \div 16), (v[2] % 16) * 16 + (v[3] \div 4) >>
  ELSE << v[1] * 4 + (v[2] \div 16), (v[2] % 16) * 16 + (v[3] \div 4),
          (v[3] % 4) * 64 + v[4] >> \o B64Bytes(SubSeq(v, 5, Len(v)))

\* Buffer.from(s, 'base64').toString()
Base64DecodeToString(s) ==
  LET b == B64Bytes(B64Symbols(s)) IN [i \in 1..Len(b) |-> ByteChar(b[i])]

RECURSIVE B64Encode(_)
B64Encode(b) ==
  IF b = << >> THEN << >>
  ELSE IF Len(b) = 1
    THEN << B64Alphabet[(b[1] \div 4) + 1], B64Alphabet[(b[1] % 4) * 16 + 1], "=", "=" >>
  ELSE IF Len(b) = 2
    THEN << B64Alphabet[(b[1] \div 4) + 1],
            B64Alphabet[(b[1] % 4) * 16 + (b[2] \div 16) + 1],
            B64Alphabet[(b[2] % 16) * 4 + 1], "=" >>
  ELSE << B64Alphabet[(b[1] \div 4) + 1],
          B64Alphabet[(b[1] % 4) * 16 + (b[2] \div 16) + 1],
          B64Alphabet[(b[2] % 16) * 4 + (b[3] \div 64) + 1],
          B64Alphabet[(b[3] % 64) + 1] >> \o B64Encode(SubSeq(b, 4, Len(b)))

\* The euro sign U+20AC, a character outside Latin-1, is written "euro".
RECURSIVE Utf8(_)
\* The UTF-8 bytes of a text of printable ASCII characters and euro signs.
Utf8(s) ==
  IF s = << >> THEN << >>
  ELSE (IF Head(s) = "euro" THEN <<226, 130, 172>> ELSE <<CharCode(Head(s))>>)
       \o Utf8(Tail(s))

\* Buffer.from(s).toString('base64')
Base64EncodeString(s) == B64Encode(Utf8(s))

\* http.get and http.request accept in a header value the tab, the characters of
\* code 32 to 126 and those of code 128 to 255; of the characters of the samples,
\* the euro sign and what a byte below 32 decodes to are outside.
ValidHeaderText(s) == \A i \in DOMAIN s : s[i] \notin {"euro", NonPrintable}

\* String literals of the source.
S_digest == <<"d", "i", "g", "e", "s", "t">>

S_authn == <<"a", "u", "t", "h", "n">>

S_auth_tkt == <<"a", "u", "t", "h", "_", "t", "k", "t">>

S_basic == <<"b", "a", "s", "i", "c">>

S_auth_tkt_eq == <<"a", "u", "t", "h", "_", "t", "k", "t", "=">>

S_MD5 == <<"M", "D", "5">>

S_SHA256 == <<"S", "H", "A", "-", "2", "5", "6">>

S_MD5_SESS == <<"M", "D", "5", "-", "S", "E", "S", "S">>

S_SHA256_SESS == <<"S", "H", "A", "-", "2", "5", "6", "-", "S", "E", "S", "S">>

S_GET == <<"G", "E", "T">>

S_POST == <<"P", "O", "S", "T">>

S_nc == <<"0", "0", "0", "0", "0", "0", "0", "1">>

\* Sample texts the modelled camera and caller use.
T_Digest == <<"D", "i", "g", "e", "s", "t">>

T_DIGEST == <<"D", "I", "G", "E", "S", "T">>

T_Authn == <<"A", "u", "t", "h", "n">>

T_AuthTkt == <<"A", "u", "t", "h", "_", "T", "k", "t">>

T_Basic == <<"B", "a", "s", "i", "c">>

T_Bearer == <<"B", "e", "a", "r", "e", "r">>

T_bob == <<"b", "o", "b">>

T_pw == <<"p", "w">>

T_x == <<"x">>

T_y == <<"y">>

T_z == <<"z">>

T_o == <<"o">>

T_qop == <<"a", "u", "t", "h", ",", "a", "u", "t", "h", "-", "i", "n", "t">>

T_sha_sess == <<"S", "H", "A", "-", "2", "5", "6", "-", "s", "e", "s", "s">>

T_cnonce == <<"c", "1">>

T_ticket == <<"n", "0", "n", "c", "e", "!", "b", "o", "b", "!", "t", "o", "k">>

T_n0nce == <<"n", "0", "n", "c", "e">>

T_tktCookie == <<"a", "u", "t", "h", "_", "t", "k", "t", "=", "b", "j", "B", "u", "Y", "2", "U", "h", "Y", "m", "9", "i", "I", "X", "R", "v", "a", "w", "=", "=", ";", " ", "P", "a", "t", "h", "=", "/">>

T_sidCookie == <<"s", "i", "d", "=", "1", ";", " ", "P", "a", "t", "h", "=", "/">>

T_badCookie == <<"a", "u", "t", "h", "_", "t", "k", "t", "=", "%", "!", "%", ";", " ", "P", "a", "t", "h", "=", "/">>

(* ------------------------------------------------------------------ *)
(* Bounds and sample inputs                                            *)
(* ------------------------------------------------------------------ *)

\* HTTP requests that may be in flight at once in the transport specification.
MaxInFlight == 2

Slots == 1..MaxInFlight

Hosts == {"cam1"}

Paths == {"/cgi-bin/param.cgi?get_image_conf"}

\* auth = null, a full credential, and a credential with an empty password.
NullAuth == [null |-> TRUE]

Bob == [username |-> T_bob, password |-> T_pw]

NoPassword == [username |-> T_bob, password |-> << >>]

\* A credential whose username holds a character outside Latin-1.
Zoe == [username |-> <<"z", "o", "euro">>, password |-> T_pw]

Auths == {NullAuth, Bob, NoPassword}

\* crypto.randomBytes(8).toString('hex'): the values a run may draw.
Cnonces == {T_cnonce}

\* A WWW-Authenticate header: its scheme word and its name=value parameters in order.
\* res.headers['www-authenticate'] || '' of a response without the header is NoHeader.
NoHeader == [word |-> << >>, params |-> << >>]

H_Digest == [word |-> T_Digest, params |-> << <<"realm", T_x>>, <<"nonce", T_y>> >>]

H_DIGEST == [word |-> T_DIGEST, params |-> << <<"realm", T_x>>, <<"nonce", T_y>> >>]

H_Authn == [word |-> T_Authn, params |-> << <<"nonce", T_z>> >>]

H_AuthTkt == [word |-> T_AuthTkt, params |-> << <<"nonce", T_z>> >>]

H_Basic == [word |-> T_Basic, params |-> << <<"realm", T_x>> >>]

H_Bearer == [word |-> T_Bearer, params |-> << <<"realm", T_x>> >>]

\* A response: status, WWW-Authenticate, res.headers['set-cookie'] || [], body.
Response(status, www, cookies, body) ==
  [status |-> status, www |-> www, cookies |-> cookies, body |-> body]

B_401 == <<"4", "0", "1">>

\* The 401 responses of the modelled camera: each recognised scheme word, in two
\* spellings, with and without cookies; no or an unknown header with no cookie, with
\* an auth_tkt cookie after another cookie, and with an undecodable auth_tkt cookie.
Challenges ==
  { Response(401, H_Digest, << >>, B_401),
    Response(401, H_DIGEST, <<T_sidCookie, T_tktCookie>>, B_401),
    Response(401, H_Authn, << >>, B_401),
    Response(401, H_AuthTkt, <<T_sidCookie, T_tktCookie>>, B_401),
    Response(401, H_Basic, << >>, B_401),
    Response(401, NoHeader, << >>, B_401),
    Response(401, H_Bearer, << >>, B_401),
    Response(401, H_Bearer, <<T_sidCookie>>, B_401),
    Response(401, NoHeader, <<T_sidCookie, T_tktCookie>>, B_401),
    Response(401, H_Bearer, <<T_tktCookie>>, B_401),
    Response(401, NoHeader, <<T_badCookie>>, B_401) }

\* Every response of the modelled camera; each status has a body of its own, so that
\* a result tells which response it came from.
Responses ==
  Challenges
  \cup { Response(200, NoHeader, << >>, <<"o", "k">>),
         Response(404, NoHeader, << >>, <<"n", "o">>) }

ErrorCodes == {"ECONNREFUSED", "EHOSTUNREACH", "ENETUNREACH", "ETIMEDOUT", "ECONNRESET"}

ErrorOf(c) == [code |-> c, message |-> "native " \o c]

\* The errors the modelled network raises in the transport specification.
TransportErrors == {ErrorOf("ECONNREFUSED"), ErrorOf("ECONNRESET")}

\* new Error('Request timed out'): an Error without a code.
TimedOutError == [code |-> "", message |-> "Request timed out"]

(* ------------------------------------------------------------------ *)
(* State                                                               *)
(* ------------------------------------------------------------------ *)

VARIABLES
  authCache,   \* the Map authCache: host -> {scheme, challenge, cookie}
  req,         \* per slot: one call of httpGet / httpGetBinary and its position
  call,        \* one invocation of an ipcMain handler and its position
  mockConfig,  \* MOCK_DATA.config
  mockPtz      \* the simulated camera's position

transportVars == <<authCache, req>>

dispatchVars == <<call, mockConfig, mockPtz>>

(* ------------------------------------------------------------------ *)
(* Authentication scheme builders                                      *)
(* ------------------------------------------------------------------ *)

\* md5(str) / sha256(str): an injective digest of the ':'-joined parts.
Hash(fn, parts) == [fn |-> fn, of |-> parts]

Str(s) == [str |-> s]

\* The white space that trim removes, of the characters the samples use.
WhiteSpace == {" ", "\t", "\n", "\r"}

RECURSIVE TrimLeft(_)
TrimLeft(s) == IF s # << >> /\ Head(s) \in WhiteSpace THEN TrimLeft(Tail(s)) ELSE s

RECURSIVE TrimRight(_)
TrimRight(s) ==
  IF s # << >> /\ s[Len(s)] \in WhiteSpace THEN TrimRight(SubSeq(s, 1, Len(s) - 1)) ELSE s

\* String.prototype.trim
Trim(s) == TrimRight(TrimLeft(s))

\* parseAuthParams: every name=value of the header, a repeated name keeping its last value.
ParseAuthParams(header) ==
  LET p == header.params
      last(k) == CHOOSE i \in DOMAIN p : p[i][1] = k /\ \A j \in DOMAIN p : p[j][1] = k => j <= i
  IN [k \in {p[i][1] : i \in DOMAIN p} |-> p[last(k)][2]]

buildDigestAuth(method, uri, username, password, challenge, cnonce) ==
  LET algo == ToUpperCase(IF Truthy(challenge, "algorithm") THEN challenge["algorithm"] ELSE S_MD5)
      fn == IF StartsWith(algo, S_SHA256) THEN "sha256" ELSE "md5"
      realm == Interp(challenge, "realm")
      nonce == Interp(challenge, "nonce")
      ha1a == Hash(fn, <<Str(username), Str(realm), Str(password)>>)
      ha1 == IF algo = S_MD5_SESS \/ algo = S_SHA256_SESS
             THEN Hash(fn, <<ha1a, Str(nonce), Str(cnonce)>>)
             ELSE ha1a
      ha2 == Hash(fn, <<Str(method), Str(uri)>>)
      hasQop == Truthy(challenge, "qop")
      qop == IF hasQop THEN Trim(BeforeFirst(challenge["qop"], ",")) ELSE << >>
      \* a qop of only blanks and commas trims to '', which is falsy
      useQop == hasQop /\ qop # << >>
      response == IF useQop
                  THEN Hash(fn, <<ha1, Str(nonce), Str(S_nc), Str(cnonce), Str(qop), ha2>>)
                  ELSE Hash(fn, <<ha1, Str(nonce), ha2>>)
      base == [scheme |-> "Digest", username |-> username, realm |-> realm, nonce |-> nonce,
               uri |-> uri, algorithm |-> algo, response |-> response]
      withQop == IF useQop
                 THEN base @@ [qop |-> qop, nc |-> S_nc, cnonce |-> cnonce]
                 ELSE base
      withOpaque == IF Truthy(challenge, "opaque")
                    THEN withQop @@ [opaque |-> challenge["opaque"]]
                    ELSE withQop
  IN [headerName |-> "Authorization", headerValue |-> withOpaque]

buildAuthnAuth(uri, username, password, challenge, cnonce) ==
  LET realm == IF Truthy(challenge, "realm") THEN challenge["realm"] ELSE << >>
      nonce == Interp(challenge, "nonce")
      ha1 == Hash("sha256", <<Str(username), Str(realm), Str(password)>>)
      ha2 == Hash("sha256", <<Str(S_GET), Str(uri)>>)
      response == Hash("sha256", <<ha1, Str(nonce), Str(cnonce), ha2>>)
  IN [headerName |-> "auth_tkt",
      headerValue |-> [scheme |-> "Authn", username |-> username, nonce |-> nonce,
                       uri |-> uri, response |-> response, cnonce |-> cnonce]]

buildBasicAuth(username, password) ==
  [headerName |-> "Authorization",
   headerValue |-> [scheme |-> "Basic",
                    token |-> Base64EncodeString(username \o <<":">> \o password)]]

\* headers[name] = value
SetHeader(headers, name, value) ==
  [k \in DOMAIN headers \cup {name} |-> IF k = name THEN value ELSE headers[k]]

PlainHeaders == [Connection |-> "close"]

\* cookie is << >> for undefined and <<text>> for a captured cookie.
buildRetryHeaders(scheme, uri, auth, challenge, cookie, cnonce) ==
  IF scheme = "digest" THEN
    LET a == buildDigestAuth(S_GET, uri, auth.username, auth.password, challenge, cnonce)
    IN SetHeader(PlainHeaders, a.headerName, a.headerValue)
  ELSE IF scheme = "authn" THEN
    LET a == buildAuthnAuth(uri, auth.username, auth.password, challenge, cnonce)
        h == SetHeader(SetHeader(PlainHeaders, a.headerName, a.headerValue), "User-From", "www")
    IN IF cookie # << >> THEN SetHeader(h, "Cookie", cookie[1]) ELSE h
  ELSE IF scheme = "basic" THEN
    LET a == buildBasicAuth(auth.username, auth.password)
    IN SetHeader(PlainHeaders, a.headerName, a.headerValue)
  ELSE PlainHeaders

\* The header whose value makes http.get throw ERR_INVALID_CHAR: the first, in the
\* order the headers were set, that holds a character no header value may hold; ""
\* when the request can be made. The values built from a hash are hexadecimal.
InvalidHeader(h) ==
  IF /\ "Authorization" \in DOMAIN h /\ h["Authorization"].scheme = "Digest"
     /\ \/ ~ValidHeaderText(h["Authorization"].username)
        \/ ~ValidHeaderText(h["Authorization"].realm)
        \/ ~ValidHeaderText(h["Authorization"].nonce)
  THEN "Authorization"
  ELSE IF /\ "auth_tkt" \in DOMAIN h
          /\ \/ ~ValidHeaderText(h["auth_tkt"].username)
             \/ ~ValidHeaderText(h["auth_tkt"].nonce)
  THEN "auth_tkt"
  ELSE IF "Cookie" \in DOMAIN h /\ ~ValidHeaderText(h["Cookie"]) THEN "Cookie"
  ELSE ""

\* The TypeError http.get throws for the header.
InvalidCharError(name) ==
  [code |-> "ERR_INVALID_CHAR",
   message |-> "Invalid character in header content [\"" \o name \o "\"]"]

(* ------------------------------------------------------------------ *)
(* authCache                                                           *)
(* ------------------------------------------------------------------ *)

\* A slot's "no cached entry" (authCache.get returned undefined).
NoEntry == [id |-> 0, scheme |-> "", challenge |-> << >>, cookie |-> << >>]

\* authCache.get(ip)
CacheGet(cache, ip) == IF ip \in DOMAIN cache THEN cache[ip] ELSE NoEntry

\* A delete that removes nothing.
CacheDeleteNoop(cache, ip) == cache

\* authCache.delete(ip)
CacheDelete(cache, ip) == [k \in DOMAIN cache \ {ip} |-> cache[k]]

\* A set that stores nothing.
CacheSetNoop(cache, ip, entry) == cache

\* authCache.set(ip, entry)
CacheSet(cache, ip, entry) ==
  [k \in DOMAIN cache \cup {ip} |-> IF k = ip THEN entry ELSE cache[k]]

\* auth && auth.username && auth.password
HasCred(auth) == Truthy(auth, "username") /\ Truthy(auth, "password")

(* ------------------------------------------------------------------ *)
(* One call of httpGet / httpGetBinary: authGet, authGetFresh          *)
(* ------------------------------------------------------------------ *)

Pending == [state |-> "pending", value |-> << >>, error |-> "", via |-> ""]

\* One call: its arguments, its position (pc), the local variables of authGet and
\* authGetFresh, the request on the wire, and what the call has done so far: the
\* kinds of the HTTP requests it sent (sent), whether its cached attempt met a 401
\* (stale), the status of the response to its last request, 0 when that request
\* ended without one (lastStatus), and the callback that settled it (result.via).
IdleReq ==
  [pc |-> "idle", api |-> "", ip |-> "", path |-> "", auth |-> NullAuth,
   cachedId |-> 0, stale |-> FALSE,
   scheme |-> "", challenge |-> << >>, cookie |-> << >>,
   wire |-> << >>, sent |-> << >>, lastStatus |-> 0, result |-> Pending]

\* The HTTP request now on the wire: http.get(url, {timeout, headers}).
Wire(method, path, headers) == [method |-> method, path |-> path, headers |-> headers]

\* The promise of the call is settled: nothing is on the wire any more and the
\* negotiation's local variables (scheme, challenge, cookie) are gone.
Settled(r, result) ==
  [r EXCEPT !.pc = "done", !.wire = << >>, !.result = result,
            !.scheme = "", !.challenge = << >>, !.cookie = << >>,
            !.cachedId = IF r.stale THEN @ ELSE 0]

\* onError of httpGet and of httpGetBinary (httpPost maps as httpGetBinary does): the
\* message the promise rejects with.
ErrorMessage(api, err) ==
  IF api = "httpGet" THEN
    IF err.code = "ECONNREFUSED"
      THEN "Connection refused - camera may be offline or IP is incorrect"
    ELSE IF err.code = "EHOSTUNREACH" \/ err.code = "ENETUNREACH"
      THEN "Network unreachable - check network connection"
    ELSE IF err.code = "ETIMEDOUT"
      THEN "Connection timed out - camera not responding"
    ELSE err.message
  ELSE
    IF err.code = "ECONNREFUSED" THEN "Connection refused - camera may be offline"
    ELSE IF err.code = "ETIMEDOUT" THEN "Connection timed out"
    ELSE err.message

\* The onError callback handed to authGet.
OnError(r, err, via) ==
  Settled(r, [state |-> "rejected", value |-> << >>,
              error |-> ErrorMessage(r.api, err), via |-> via])

\* An onResponse that treats a 401 as a failure.
OnResponseReject401(r, res, via) ==
  IF res.status = 401
  THEN Settled(r, [state |-> "rejected", value |-> << >>,
                   error |-> "401 Unauthorized", via |-> via])
  ELSE Settled(r, [state |-> "resolved", value |-> res.body, error |-> "", via |-> via])

\* The onResponse callback handed to authGet: the body is read to its end and the
\* promise resolves with it; httpGetBinary rejects a 404 instead.
OnResponse(r, res, via) ==
  IF r.api = "httpGetBinary" /\ res.status = 404
  THEN Settled(r, [state |-> "rejected", value |-> << >>,
                   error |-> "404 Not Found - endpoint not supported", via |-> via])
  ELSE Settled(r, [state |-> "resolved", value |-> res.body, error |-> "", via |-> via])

\* An exception thrown while the executor of the call's promise runs rejects the
\* promise with it.
ExecutorThrows(r, err) ==
  Settled(r, [state |-> "rejected", value |-> << >>, error |-> err.message,
              via |-> "executor"])

\* An exception thrown inside a response listener is an uncaught exception of the
\* process: neither onResponse nor onError runs, no request is on the wire, and the
\* call's promise stays pending.
ListenerThrows(r) == [r EXCEPT !.pc = "thrown", !.wire = << >>]

\* authGetFresh up to its http.get: the unauthenticated request goes out.
authGetFresh(r) ==
  [r EXCEPT !.pc = "probe",
            !.wire = <<Wire(S_GET, r.path, PlainHeaders)>>,
            !.sent = Append(@, "probe")]

\* authGet up to its http.get: with a cached entry and a credential the request
\* carries headers built from the entry; otherwise authGetFresh runs.
authGet(r, cache, cnonce) ==
  LET cached == CacheGet(cache, r.ip)
      headers == buildRetryHeaders(cached.scheme, r.path, r.auth,
                                   cached.challenge, cached.cookie, cnonce)
  IN
  IF r.ip \in DOMAIN cache /\ HasCred(r.auth)
  THEN IF InvalidHeader(headers) # ""
       THEN ExecutorThrows(r, InvalidCharError(InvalidHeader(headers)))
       ELSE [r EXCEPT !.pc = "cached",
                      !.cachedId = cached.id,
                      !.wire = <<Wire(S_GET, r.path, headers)>>,
                      !.sent = Append(@, "cached")]
  ELSE authGetFresh(r)

\* setCookies.find(c => c.startsWith('auth_tkt=')): << >> when there is none.
FindTkt(setCookies) ==
  LET hits == {i \in DOMAIN setCookies : StartsWith(setCookies[i], S_auth_tkt_eq)}
  IN IF hits = {} THEN << >>
     ELSE <<setCookies[CHOOSE i \in hits : \A j \in hits : i <= j]>>

\* A nonce taken from the cookie text without decoding it.
CookieNonceRaw(tktCookie) ==
  BeforeFirst(BeforeFirst(AfterFirst(tktCookie, "="), ";"), "!")

\* The nonce of an auth_tkt cookie: base64(nonce!username!token). Decoding never
\* throws, so the catch branch of the source is never taken.
CookieNonce(tktCookie) ==
  BeforeFirst(Base64DecodeToString(BeforeFirst(AfterFirst(tktCookie, "="), ";")), "!")

\* A scheme detection that falls back to basic instead of giving up.
DetectSchemeDefaultBasic(wwwAuth, setCookies) ==
  LET wwwLower == ToLowerCase(wwwAuth.word)
      tkt == FindTkt(setCookies)
  IN IF StartsWith(wwwLower, S_digest)
       THEN [scheme |-> "digest", challenge |-> ParseAuthParams(wwwAuth), cookie |-> << >>]
     ELSE IF StartsWith(wwwLower, S_authn) \/ StartsWith(wwwLower, S_auth_tkt)
       THEN [scheme |-> "authn", challenge |-> ParseAuthParams(wwwAuth),
             cookie |-> IF tkt # << >> THEN <<BeforeFirst(tkt[1], ";")>> ELSE << >>]
     ELSE IF tkt # << >>
       THEN [scheme |-> "authn", challenge |-> [nonce |-> CookieNonce(tkt[1])],
             cookie |-> <<BeforeFirst(tkt[1], ";")>>]
     ELSE [scheme |-> "basic", challenge |-> << >>, cookie |-> << >>]

\* The scheme detection of authGetFresh: scheme "" when none was recognised.
DetectScheme(wwwAuth, setCookies) ==
  LET wwwLower == ToLowerCase(wwwAuth.word)
      tkt == FindTkt(setCookies)
  IN IF StartsWith(wwwLower, S_digest)
       THEN [scheme |-> "digest", challenge |-> ParseAuthParams(wwwAuth), cookie |-> << >>]
     ELSE IF StartsWith(wwwLower, S_authn) \/ StartsWith(wwwLower, S_auth_tkt)
       THEN [scheme |-> "authn", challenge |-> ParseAuthParams(wwwAuth),
             cookie |-> IF tkt # << >> THEN <<BeforeFirst(tkt[1], ";")>> ELSE << >>]
     ELSE IF StartsWith(wwwLower, S_basic)
       THEN [scheme |-> "basic", challenge |-> << >>, cookie |-> << >>]
     ELSE IF tkt # << >>
       THEN [scheme |-> "authn", challenge |-> [nonce |-> CookieNonce(tkt[1])],
             cookie |-> <<BeforeFirst(tkt[1], ";")>>]
     ELSE [scheme |-> "", challenge |-> << >>, cookie |-> << >>]

\* The error of an unrecognised challenge (the source writes the dash as U+2014).
UnknownSchemeError == [code |-> "", message |-> "401 Unauthorized -- unknown auth scheme"]

\* The error of a 401 on the negotiated retry.
RejectedError == [code |-> "", message |-> "401 Unauthorized - check credentials"]

\* The response callback of authGet's cached attempt: the slot and the cache after it.
CachedCallback(r, cache, res) ==
  IF res.status = 401
  THEN [req |-> authGetFresh([r EXCEPT !.stale = TRUE, !.lastStatus = res.status]),
        cache |-> CacheDelete(cache, r.ip)]
  ELSE [req |-> OnResponse([r EXCEPT !.lastStatus = res.status], res, "cached"),
        cache |-> cache]

\* The response callback of authGetFresh's unauthenticated request.
ProbeCallback(r, res, cnonce) ==
  LET r1 == [r EXCEPT !.lastStatus = res.status]
      d == DetectScheme(res.www, res.cookies)
      headers == buildRetryHeaders(d.scheme, r.path, r.auth, d.challenge, d.cookie, cnonce)
  IN IF res.status # 401 \/ ~HasCred(r.auth) THEN OnResponse(r1, res, "probe")
     ELSE IF d.scheme = "" THEN OnError(r1, UnknownSchemeError, "probe")
     ELSE IF InvalidHeader(headers) # ""
       THEN ListenerThrows([r1 EXCEPT !.scheme = d.scheme, !.challenge = d.challenge,
                                      !.cookie = d.cookie])
     ELSE [r1 EXCEPT !.pc = "retry",
                     !.scheme = d.scheme, !.challenge = d.challenge, !.cookie = d.cookie,
                     !.wire = <<Wire(S_GET, r.path, headers)>>,
                     !.sent = Append(@, "retry")]

\* A retry callback that negotiates again when the retry meets a 401.
RetryCallbackRenegotiate(r, cache, id, res) ==
  IF res.status = 401
  THEN [req |-> authGetFresh([r EXCEPT !.lastStatus = res.status]), cache |-> cache]
  ELSE [req |-> OnResponse([r EXCEPT !.lastStatus = res.status], res, "retry"),
        cache |-> CacheSet(cache, r.ip,
                   [id |-> id, scheme |-> r.scheme, challenge |-> r.challenge,
                    cookie |-> r.cookie])]

\* A retry callback that does not look at the status of the retry's response.
RetryCallbackNoCheck(r, cache, id, res) ==
  [req |-> OnResponse([r EXCEPT !.lastStatus = res.status], res, "retry"),
   cache |-> CacheSet(cache, r.ip,
              [id |-> id, scheme |-> r.scheme, challenge |-> r.challenge,
               cookie |-> r.cookie])]

\* A retry callback that stores the entry before it looks at the status.
RetryCallbackCacheFirst(r, cache, id, res) ==
  LET stored == CacheSet(cache, r.ip,
                  [id |-> id, scheme |-> r.scheme, challenge |-> r.challenge,
                   cookie |-> r.cookie])
  IN IF res.status = 401
     THEN [req |-> OnError([r EXCEPT !.lastStatus = res.status], RejectedError, "retry"),
           cache |-> stored]
     ELSE [req |-> OnResponse([r EXCEPT !.lastStatus = res.status], res, "retry"),
           cache |-> stored]

\* The response callback of authGetFresh's authenticated retry (req2).
RetryCallback(r, cache, id, res) ==
  IF res.status = 401
  THEN [req |-> OnError([r EXCEPT !.lastStatus = res.status], RejectedError, "retry"),
        cache |-> cache]
  ELSE [req |-> OnResponse([r EXCEPT !.lastStatus = res.status], res, "retry"),
        cache |-> CacheSet(cache, r.ip,
                   [id |-> id, scheme |-> r.scheme, challenge |-> r.challenge,
                    cookie |-> r.cookie])]

\* The headers of httpPost before any authentication is added.
PostHeaders == ("Connection" :> "close") @@ ("Content-Length" :> "0")

\* httpPost up to req.end(): one request, with the headers built from the host's
\* cached entry when there is one and a credential was given.
httpPost(r, cache, cnonce) ==
  LET cached == CacheGet(cache, r.ip)
      headers == IF r.ip \in DOMAIN cache /\ HasCred(r.auth)
                 THEN buildRetryHeaders(cached.scheme, r.path, r.auth,
                                        cached.challenge, cached.cookie, cnonce)
                      @@ PostHeaders
                 ELSE PostHeaders
  IN IF InvalidHeader(headers) # ""
     THEN ExecutorThrows(r, InvalidCharError(InvalidHeader(headers)))
     ELSE [r EXCEPT !.pc = "post",
                    !.wire = <<Wire(S_POST, r.path, headers)>>,
                    !.sent = Append(@, "post")]

\* A response callback of httpPost that negotiates when the response is a 401.
PostCallbackRenegotiate(r, res) ==
  IF res.status = 401
  THEN authGetFresh([r EXCEPT !.lastStatus = res.status])
  ELSE Settled([r EXCEPT !.lastStatus = res.status],
               [state |-> "resolved", value |-> res.body, error |-> "", via |-> "post"])

\* The response callback of httpPost: the promise resolves with the body, whatever
\* the status.
PostCallback(r, res) ==
  Settled([r EXCEPT !.lastStatus = res.status],
          [state |-> "resolved", value |-> res.body, error |-> "", via |-> "post"])

(* ------------------------------------------------------------------ *)
(* Transport actions                                                   *)
(* ------------------------------------------------------------------ *)

\* The identity of a new object { scheme, challenge, cookie }: one that no object
\* still referenced (by the Map or by a call's variable cached) has. A call keeps
\* of its variable cached only the identity (the object itself is never changed),
\* and past its end only when the entry proved stale.
NewId(cache, r) ==
  LET used == {cache[h].id : h \in DOMAIN cache} \cup {r[s].cachedId : s \in DOMAIN r}
  IN CHOOSE i \in 1..(Cardinality(used) + 1) : i \notin used /\ \A j \in 1..(i - 1) : j \in used

\* A caller invokes httpGet or httpGetBinary: authGet runs to its first http.get.
HttpCall(s, api, ip, path, auth, cnonce) ==
  /\ req[s].pc = "idle"
  /\ req' = [req EXCEPT ![s] =
        authGet([IdleReq EXCEPT !.api = api, !.ip = ip, !.path = path, !.auth = auth],
                authCache, cnonce)]
  /\ UNCHANGED <<authCache, dispatchVars>>

\* A caller invokes httpPost.
HttpPost(s, ip, path, auth, cnonce) ==
  /\ req[s].pc = "idle"
  /\ req' = [req EXCEPT ![s] =
        httpPost([IdleReq EXCEPT !.api = "httpPost", !.ip = ip, !.path = path,
                                 !.auth = auth],
                 authCache, cnonce)]
  /\ UNCHANGED <<authCache, dispatchVars>>

\* The camera answers the POST.
PostResponse(s, res) ==
  /\ req[s].pc = "post"
  /\ req' = [req EXCEPT ![s] = PostCallback(req[s], res)]
  /\ UNCHANGED <<authCache, dispatchVars>>

\* The camera answers the request sent with cached authentication.
CachedResponse(s, res) ==
  /\ req[s].pc = "cached"
  /\ LET after == CachedCallback(req[s], authCache, res)
     IN /\ req' = [req EXCEPT ![s] = after.req]
        /\ authCache' = after.cache
  /\ UNCHANGED dispatchVars

\* The camera answers the unauthenticated request.
ProbeResponse(s, res, cnonce) ==
  /\ req[s].pc = "probe"
  /\ req' = [req EXCEPT ![s] = ProbeCallback(req[s], res, cnonce)]
  /\ UNCHANGED <<authCache, dispatchVars>>

\* The camera answers the authenticated retry.
RetryResponse(s, res) ==
  /\ req[s].pc = "retry"
  /\ LET after == RetryCallback(req[s], authCache, NewId(authCache, req), res)
     IN /\ req' = [req EXCEPT ![s] = after.req]
        /\ authCache' = after.cache
  /\ UNCHANGED dispatchVars

\* The request on the wire emits 'error'.
RequestError(s, err) ==
  /\ req[s].pc \in {"cached", "probe", "retry", "post"}
  /\ req' = [req EXCEPT ![s] = OnError([req[s] EXCEPT !.lastStatus = 0], err, req[s].pc)]
  /\ UNCHANGED <<authCache, dispatchVars>>

\* The request on the wire emits 'timeout': it is destroyed and the call fails.
RequestTimeout(s) ==
  /\ req[s].pc \in {"cached", "probe", "retry", "post"}
  /\ req' = [req EXCEPT ![s] =
        OnError([req[s] EXCEPT !.lastStatus = 0], TimedOutError, req[s].pc)]
  /\ UNCHANGED <<authCache, dispatchVars>>

\* The caller has taken the settled result; the slot is free for another call.
Collect(s) ==
  /\ req[s].pc = "done"
  /\ req' = [req EXCEPT ![s] = IdleReq]
  /\ UNCHANGED <<authCache, dispatchVars>>

TransportInit ==
  /\ authCache = << >>
  /\ req = [s \in Slots |-> IdleReq]

TransportNext ==
  \/ \E s \in Slots, api \in {"httpGet"}, ip \in Hosts,
        path \in Paths, auth \in Auths, cn \in Cnonces :
          HttpCall(s, api, ip, path, auth, cn)
  \/ \E s \in Slots, res \in Responses : CachedResponse(s, res)
  \/ \E s \in Slots, res \in Responses, cn \in Cnonces : ProbeResponse(s, res, cn)
  \/ \E s \in Slots, res \in Responses : RetryResponse(s, res)
  \/ \E s \in Slots, err \in TransportErrors : RequestError(s, err)
  \/ \E s \in Slots : RequestTimeout(s)
  \/ \E s \in Slots : Collect(s)

(* ------------------------------------------------------------------ *)
(* parse                                                               *)
(* ------------------------------------------------------------------ *)

RECURSIVE SplitLines(_)
\* raw.split(/[\r\n]+/) without the empty pieces (which hold no '=' and so add
\* nothing): the maximal runs of characters other than CR and LF.
SplitLines(s) ==
  IF s = << >> THEN << >>
  ELSE IF Head(s) \in {"\r", "\n"} THEN SplitLines(Tail(s))
  ELSE LET ends == {i \in 1..Len(s) : s[i] \in {"\r", "\n"}}
           n == IF ends = {} THEN Len(s) + 1
                ELSE CHOOSE i \in ends : \A j \in ends : i <= j
       IN <<SubSeq(s, 1, n - 1)>> \o SplitLines(SubSeq(s, n, Len(s)))

Digits == <<"0", "1", "2", "3", "4", "5", "6", "7", "8", "9">>

DigitVal(c) == (CHOOSE i \in 1..10 : Digits[i] = c) - 1

RECURSIVE DigitsValue(_)
DigitsValue(v) ==
  IF v = << >> THEN 0 ELSE 10 * DigitsValue(SubSeq(v, 1, Len(v) - 1)) + DigitVal(v[Len(v)])

\* isNaN(v) for a trimmed text v: the empty text and the texts of decimal digits are
\* numbers; every text the sample bodies use besides them holds a letter that no
\* numeric literal of JavaScript has.
IsNaN(v) == \E i \in 1..Len(v) : \A d \in 1..10 : Digits[d] # v[i]

\* A value of a parsed map: a number or a text.
NumVal(n) == [t |-> "number", n |-> n, s |-> << >>]

StrVal(s) == [t |-> "string", n |-> 0, s |-> s]

\* isNaN(v) ? v : Number(v)
ParseValue(v) == IF IsNaN(v) THEN StrVal(v) ELSE NumVal(DigitsValue(v))

\* r[k] = v on an object held as a function from its keys.
SetKey(r, k, v) == [x \in DOMAIN r \cup {k} |-> IF x = k THEN v ELSE r[x]]

RECURSIVE ParseLines(_, _)
ParseLines(lines, r) ==
  IF lines = << >> THEN r
  ELSE LET line == Head(lines)
           eq == IndexOf(line, "=")
       IN IF eq > 1
          THEN ParseLines(Tail(lines),
                 SetKey(r, Trim(SubSeq(line, 1, eq - 1)),
                        ParseValue(Trim(SubSeq(line, eq + 1, Len(line))))))
          ELSE ParseLines(Tail(lines), r)

\* parse(raw): the key=value lines of a body as an object.
Parse(raw) == ParseLines(SplitLines(raw), << >>)

\* { ...a, ...b }: the keys of both, b's value where both have the key.
Spread(a, b) == [k \in DOMAIN a \cup DOMAIN b |-> IF k \in DOMAIN b THEN b[k] ELSE a[k]]

\* Bodies of the modelled camera's configuration reads.
B_dev ==
  <<"d", "e", "v", "i", "c", "e", "_", "m", "o", "d", "e", "l", "=", "M", "1", "\n", "s",
  "e", "r", "i", "a", "l", "_", "n", "u", "m", "b", "e", "r", "=", "0", "\n", "f", "w",
  "=", "2">>

B_img ==
  <<"b", "r", "i", "g", "h", "t", "=", "7", "\r", "\n", "\r", "\n", " ", "h", "u", "e", " ",
  "=", " ", "x", " ", "\n", "=", "b", "a", "d", "\n", "n", "o", "e", "q">>

B_exp == <<"b", "r", "i", "g", "h", "t", "=", "9">>

B_html ==
  <<"<", "h", "t", "m", "l", ">", "4", "0", "1", " ", "U", "n", "a", "u", "t", "h", "o",
  "r", "i", "z", "e", "d", "<", "/", "h", "t", "m", "l", ">">>

K_bright == <<"b", "r", "i", "g", "h", "t">>

K_hue == <<"h", "u", "e">>

K_model == <<"m", "o", "d", "e", "l">>

K_device_model == <<"d", "e", "v", "i", "c", "e", "_", "m", "o", "d", "e", "l">>

K_serial_number == <<"s", "e", "r", "i", "a", "l", "_", "n", "u", "m", "b", "e", "r">>

K_sn == <<"s", "n">>

K_firmware_version == <<"f", "i", "r", "m", "w", "a", "r", "e", "_", "v", "e", "r", "s", "i", "o", "n">>

K_fw == <<"f", "w">>

T_M1 == <<"M", "1">>

(* ------------------------------------------------------------------ *)
(* The ipcMain handlers: values, requests, results                     *)
(* ------------------------------------------------------------------ *)

\* null and undefined as values of a caller's object.
NullVal == [t |-> "null", n |-> 0, s |-> << >>]

\* A value is truthy: a number other than 0, a text other than ''.
TruthyVal(v) == (v.t = "number" /\ v.n # 0) \/ (v.t = "string" /\ v.s # << >>)

\* obj[a] || obj[b] || dflt
Or3(obj, a, b, dflt) ==
  IF a \in DOMAIN obj /\ TruthyVal(obj[a]) THEN obj[a]
  ELSE IF b \in DOMAIN obj /\ TruthyVal(obj[b]) THEN obj[b]
  ELSE dflt

\* s.includes(p)
Includes(s, p) == \E i \in 0..(Len(s) - Len(p)) : SubSeq(s, i + 1, i + Len(p)) = p

\* MOCK_DATA.info and MOCK_DATA.config as the program starts.
MOCK_info == [model |-> "Simulated PTZ", serial |-> "SIM-001", firmware |-> "v9.9.9-mock"]

MOCK_config ==
  [wb_mode |-> NumVal(0), rgaintuning |-> NumVal(10), bgaintuning |-> NumVal(10),
   exposure_mode |-> NumVal(0), gain |-> NumVal(0), gainLimit |-> NumVal(15),
   backlight |-> NumVal(3), iris |-> NumVal(0), shutter |-> NumVal(1),
   focus_mode |-> NumVal(2), drc |-> NumVal(0),
   saturation |-> NumVal(4), bright |-> NumVal(7), contrast |-> NumVal(7),
   hue |-> NumVal(7), sharpness |-> NumVal(6),
   nr2d |-> NumVal(0), anti_flicker |-> NumVal(0)]

\* let mockPtz = { pan: 0, tilt: 0, zoom: 0 }
MockPtz0 == [pan |-> 0, tilt |-> 0, zoom |-> 0]

\* A caller's object is held as the sequence of its entries <<key, value>> in
\* insertion order (the order of Object.entries), its keys distinct.
RECURSIVE Assign(_, _)
\* Object.assign(target, source) for a target held as a function from its keys;
\* a source that is null or undefined adds nothing.
Assign(target, entries) ==
  IF entries = << >> THEN target
  ELSE Assign(SetKey(target, Head(entries)[1], Head(entries)[2]), Tail(entries))

\* A caller's argument that is null or undefined where an object is expected.
NotAnObject == <<"null">>

IsObject(p) == p # NotAnObject

\* { ...a, ...b } for objects held as entries: b's entries override a's in place,
\* new keys follow in b's order.
RECURSIVE SpreadEntries(_, _)
SpreadEntries(a, b) ==
  IF b = << >> THEN a
  ELSE LET k == Head(b)[1]
           at == {i \in DOMAIN a : a[i][1] = k}
       IN SpreadEntries(IF at = {} THEN Append(a, Head(b))
                        ELSE [i \in DOMAIN a |-> IF i \in at THEN Head(b) ELSE a[i]],
                        Tail(b))

\* A request a handler has issued through httpGet, httpGetBinary or httpPost and the
\* state of its promise.
Read(api, path, auth) ==
  [api |-> api, path |-> path, auth |-> auth,
   state |-> "pending", value |-> << >>, error |-> ""]

\* How a request's promise settles.
Resolved(body) == [state |-> "resolved", value |-> body, error |-> ""]

Rejected(msg) == [state |-> "rejected", value |-> << >>, error |-> msg]

\* A Buffer: its text followed by pad bytes that belong to none of the texts the
\* handlers search for.
Buffer(text, pad) == [text |-> text, pad |-> pad]

BufferLength(buf) == Len(buf.text) + buf.pad

\* What a handler's promise settled with: nothing yet, a value, or a rejection.
NoReturn == [type |-> "none", value |-> << >>]

ReturnObject(obj) == [type |-> "object", value |-> obj]

ReturnArray(arr) == [type |-> "array", value |-> arr]

ReturnString(str) == [type |-> "string", value |-> str]

Thrown(msg) == [type |-> "rejected", value |-> msg]

Success == [success |-> TRUE]

Failure(msg) == [success |-> FALSE, error |-> msg]

\* The socket and timer of camera:visca and camera:discover; heard records the
\* <<address, port>> of the datagrams camera:discover has received.
NoUdp == [socket |-> "none", closes |-> 0, timer |-> "none", sent |-> "no",
          got |-> FALSE, found |-> << >>, uncaught |-> 0, heard |-> {}]

NoArgs == [none |-> TRUE]

\* One invocation of a handler: its channel (op) and arguments, its position (pc),
\* the requests it has issued in order (reads), the locals of camera:connect (info,
\* hadAnyResponse, errors), the index of the entry a loop awaits (idx), and the
\* value its promise settled with (ret).
IdleCall ==
  [pc |-> "idle", op |-> "", ip |-> "", auth |-> NullAuth, args |-> NoArgs,
   reads |-> << >>, info |-> << >>, hadAnyResponse |-> FALSE, errors |-> << >>,
   entries |-> << >>, idx |-> 0, udp |-> NoUdp, ret |-> NoReturn]

\* return value / throw out of the handler: its promise settles, once.
Return(c, value) == [c EXCEPT !.pc = "returned", !.ret = value]

\* The handler issues a request and goes on (or awaits it).
Issue(c, api, path) == [c EXCEPT !.reads = Append(@, Read(api, path, c.auth))]

\* The last request issued.
LastRead(c) == c.reads[Len(c.reads)]

\* A catch that throws the error on.
CatchRethrow(c, msg) == Return(c, Thrown(msg))

\* catch (err) { return { success: false, error: err.message } }
Catch(c, msg) == Return(c, ReturnObject(Failure(msg)))

(* ------------------------------------------------------------------ *)
(* camera:connect and the group fetches                                *)
(* ------------------------------------------------------------------ *)

D_model == <<"P", "T", "Z", "O", "p", "t", "i", "c", "s", " ", "M", "o", "v", "e", " ", "S", "E">>

D_NA == <<"N", "/", "A">>

S_401 == <<"4", "0", "1">>

S_Unauthorized == <<"U", "n", "a", "u", "t", "h", "o", "r", "i", "z", "e", "d">>

S_doctype == <<"<", "!", "D", "O", "C", "T", "Y", "P", "E">>

S_html == <<"<", "h", "t", "m", "l">>

S_home == <<"h", "o", "m", "e">>

S_pos == <<"p", "o", "s">>

\* A path is held as the pieces of its template literal.
DeviceConfPath == <<"/cgi-bin/param.cgi?get_device_conf">>

ConnectPaths ==
  << <<"/cgi-bin/param.cgi?get_image_conf">>,
     <<"/cgi-bin/param.cgi?get_exposure_conf">>,
     <<"/cgi-bin/param.cgi?get_focus_conf">> >>

ConnectLabels == <<"Image conf: ", "Exposure conf: ", "Focus conf: ">>

GroupOps == {"getSettings", "getVideoConfig", "getSystemConfig"}

GroupPaths(op) ==
  IF op = "getSettings" THEN ConnectPaths
  ELSE IF op = "getVideoConfig" THEN
    << <<"/cgi-bin/param.cgi?get_media_video">>, <<"/cgi-bin/param.cgi?get_media_audio">> >>
  ELSE
    << <<"/cgi-bin/param.cgi?get_network_conf">>, <<"/cgi-bin/param.cgi?get_server_conf">>,
       <<"/cgi-bin/param.cgi?get_user_conf">>, <<"/cgi-bin/param.cgi?get_trans_conf">> >>

RECURSIVE IssueAll(_, _, _)
\* The requests of a Promise.all, issued in the order of its array.
IssueAll(c, api, paths) ==
  IF paths = << >> THEN c ELSE IssueAll(Issue(c, api, Head(paths)), api, Tail(paths))

\* The request's promise settles.
Settle(c, i, out) ==
  [c EXCEPT !.reads[i].state = out.state, !.reads[i].value = out.value,
            !.reads[i].error = out.error]

\* p.catch(() => ''): the body of a request, '' when it was rejected.
BodyOrEmpty(r) == IF r.state = "resolved" THEN r.value ELSE << >>

\* camera:connect up to its first await.
connect(c, config) ==
  IF c.ip = "mock"
  THEN Return(c, ReturnObject([success |-> TRUE, info |-> MOCK_info, config |-> config]))
  ELSE Issue([c EXCEPT !.pc = "device"], "httpGet", DeviceConfPath)

\* camera:connect from the settling of the device-config request to its second await.
connectDevice(c, out) ==
  LET c1 == Settle(c, 1, out)
      c2 == IF out.state = "resolved"
            THEN [c1 EXCEPT !.info = Parse(out.value), !.hadAnyResponse = TRUE]
            ELSE [c1 EXCEPT !.errors = Append(@, "Device config: " \o out.error)]
  IN IssueAll([c2 EXCEPT !.pc = "all"], "httpGet", ConnectPaths)

\* A connect that fails as soon as one read has failed.
connectFinishStrict(c) ==
  IF c.errors # << >>
  THEN Return(c, ReturnObject(Failure(c.errors[1])))
  ELSE Return(c, ReturnObject(
         [success |-> TRUE,
          info |-> [model |-> Or3(c.info, K_device_model, K_model, StrVal(D_model)),
                    serial |-> Or3(c.info, K_serial_number, K_sn, StrVal(D_NA)),
                    firmware |-> Or3(c.info, K_firmware_version, K_fw, StrVal(D_NA))],
          config |-> Spread(Spread(Parse(BodyOrEmpty(c.reads[2])),
                                   Parse(BodyOrEmpty(c.reads[3]))),
                            Parse(BodyOrEmpty(c.reads[4])))]))

\* camera:connect after its Promise.all.
connectFinish(c) ==
  IF ~c.hadAnyResponse
  THEN Return(c, ReturnObject(Failure(
         IF c.errors # << >> THEN c.errors[1]
         ELSE "Camera unreachable - check IP address and network connection")))
  ELSE Return(c, ReturnObject(
         [success |-> TRUE,
          info |-> [model |-> Or3(c.info, K_device_model, K_model, StrVal(D_model)),
                    serial |-> Or3(c.info, K_serial_number, K_sn, StrVal(D_NA)),
                    firmware |-> Or3(c.info, K_firmware_version, K_fw, StrVal(D_NA))],
          config |-> Spread(Spread(Parse(BodyOrEmpty(c.reads[2])),
                                   Parse(BodyOrEmpty(c.reads[3]))),
                            Parse(BodyOrEmpty(c.reads[4])))]))

\* The then and catch of one of camera:connect's three concurrent requests, and the
\* rest of the handler once all three have settled.
connectRead(c, i, out) ==
  LET c1 == Settle(c, i, out)
      c2 == IF out.state = "resolved"
            THEN [c1 EXCEPT !.hadAnyResponse = TRUE]
            ELSE [c1 EXCEPT !.errors = Append(@, ConnectLabels[i - 1] \o out.error)]
  IN IF \A j \in 2..4 : c2.reads[j].state # "pending" THEN connectFinish(c2) ELSE c2

\* A group fetch up to its await.
groupFetch(c, config) ==
  IF c.ip = "mock"
  THEN Return(c, ReturnObject(
         [success |-> TRUE,
          config |-> IF c.op = "getSettings" THEN config ELSE << >>]))
  ELSE IssueAll([c EXCEPT !.pc = "all"], "httpGet", GroupPaths(c.op))

\* The config a group fetch returns.
GroupConfig(c) ==
  LET p(i) == Parse(BodyOrEmpty(c.reads[i]))
  IN IF c.op = "getSettings" THEN Spread(Spread(p(1), p(2)), p(3))
     ELSE IF c.op = "getVideoConfig" THEN Spread(p(1), p(2))
     ELSE [network |-> p(1), server |-> p(2), user |-> p(3), trans |-> p(4)]

\* The catch of one request of a group fetch, and the rest of the handler once all
\* have settled.
groupRead(c, i, out) ==
  LET c1 == Settle(c, i, out)
  IN IF \A j \in DOMAIN c1.reads : c1.reads[j].state # "pending"
     THEN Return(c1, ReturnObject([success |-> TRUE, config |-> GroupConfig(c1)]))
     ELSE c1

(* ------------------------------------------------------------------ *)
(* The set operations, movement, snapshots and the POST operations     *)
(* ------------------------------------------------------------------ *)

S_up == <<"u", "p">>

S_down == <<"d", "o", "w", "n">>

S_left == <<"l", "e", "f", "t">>

S_right == <<"r", "i", "g", "h", "t">>

S_upleft == <<"u", "p", "l", "e", "f", "t">>

S_upright == <<"u", "p", "r", "i", "g", "h", "t">>

S_downleft == <<"d", "o", "w", "n", "l", "e", "f", "t">>

S_downright == <<"d", "o", "w", "n", "r", "i", "g", "h", "t">>

S_ptzstop == <<"p", "t", "z", "s", "t", "o", "p">>

S_poscall == <<"p", "o", "s", "c", "a", "l", "l">>

S_zoomin == <<"z", "o", "o", "m", "i", "n">>

S_focusin == <<"f", "o", "c", "u", "s", "i", "n">>

S_osd_back == <<"o", "s", "d", "_", "b", "a", "c", "k">>

T_Home == <<"H", "o", "m", "e">>

B_page == <<"<", "h", "t", "m", "l", ">", "N", "o", "t", " ", "F", "o", "u", "n", "d", "<", "/", "h", "t", "m", "l", ">">>

B_jfif == <<"J", "F", "I", "F">>

\* undefined as a caller's argument.
Undefined == [t |-> "undefined", n |-> 0, s |-> << >>]

\* The message of the TypeError of Object.entries(null).
NotAnObjectError == "Cannot convert undefined or null to object"

\* The message of the TypeError of cmd.toLowerCase() for a cmd that is no text.
NoToLowerCaseError == "Cannot read properties of undefined (reading 'toLowerCase')"

\* An argument that should be an object, as entries: null and undefined have none.
EntriesOf(p) == IF IsObject(p) THEN p ELSE << >>

SetLoopOps == {"setImageParam", "setExposureParam", "setFocusParam"}

PostImageValuePath(entry) ==
  <<"/cgi-bin/ptzctrl.cgi?post_image_value&", entry[1], "&", entry[2]>>

\* setImageParam, setExposureParam, setFocusParam up to the first await.
setParams(c) ==
  IF c.ip = "mock" THEN Return(c, ReturnObject(Success))
  ELSE IF ~IsObject(c.args.params) THEN Catch(c, NotAnObjectError)
  ELSE IF c.args.params = << >> THEN Return(c, ReturnObject(Success))
  ELSE Issue([c EXCEPT !.pc = "loop", !.entries = c.args.params, !.idx = 1],
             "httpGet", PostImageValuePath(c.args.params[1]))

\* The loop of a set operation after an awaited request has settled.
setParamsNext(c, out) ==
  LET c1 == Settle(c, Len(c.reads), out)
  IN IF out.state = "rejected" THEN Catch(c1, out.error)
     ELSE IF c1.idx = Len(c1.entries) THEN Return(c1, ReturnObject(Success))
     ELSE Issue([c1 EXCEPT !.idx = @ + 1], "httpGet",
                PostImageValuePath(c1.entries[c1.idx + 1]))

\* camera:syncAll from entry i on: entries whose value is undefined or null are
\* skipped, the next other one is sent and awaited.
syncFrom(c, i) ==
  LET rest == {j \in i..Len(c.entries) : c.entries[j][2].t \notin {"null", "undefined"}}
  IN IF rest = {} THEN Return(c, ReturnObject(Success))
     ELSE LET j == CHOOSE x \in rest : \A y \in rest : x <= y
          IN Issue([c EXCEPT !.pc = "sync", !.idx = j], "httpGet",
                   PostImageValuePath(c.entries[j]))

\* camera:syncAll up to its first await.
syncAll(c) ==
  IF c.ip = "mock" THEN Return(c, ReturnObject(Success))
  ELSE syncFrom([c EXCEPT !.entries =
                   SpreadEntries(SpreadEntries(EntriesOf(c.args.imgP), EntriesOf(c.args.expP)),
                                 EntriesOf(c.args.focP))], 1)

\* camera:syncAll after an awaited request has settled: a rejection is swallowed.
syncNext(c, out) == LET c1 == Settle(c, Len(c.reads), out) IN syncFrom(c1, c1.idx + 1)

HexDigits ==
  <<"0", "1", "2", "3", "4", "5", "6", "7", "8", "9", "a", "b", "c", "d", "e", "f">>

RECURSIVE ToHex(_)
\* n.toString(16) for a natural number.
ToHex(n) == IF n < 16 THEN <<HexDigits[n + 1]>> ELSE ToHex(n \div 16) \o <<HexDigits[(n % 16) + 1]>>

RECURSIVE PadStart(_, _, _)
PadStart(s, n, ch) == IF Len(s) >= n THEN s ELSE PadStart(<<ch>> \o s, n, ch)

ZoomMax == 16384

Min(a, b) == IF a < b THEN a ELSE b

Max(a, b) == IF a > b THEN a ELSE b

S_NaN == <<"N", "a", "N">>

\* Number(v) for a caller's value: an integer, or NaN for undefined and for a text
\* that is no number; null and '' give 0.
Number(v) ==
  IF v.t = "number" THEN [nan |-> FALSE, n |-> v.n]
  ELSE IF v.t = "null" THEN [nan |-> FALSE, n |-> 0]
  ELSE IF v.t = "string" /\ ~IsNaN(v.s) THEN [nan |-> FALSE, n |-> DigitsValue(v.s)]
  ELSE [nan |-> TRUE, n |-> 0]

\* Math.max(0, Math.min(16384, Number(position))).toString(16).padStart(4, '0'):
\* Math.min and Math.max of NaN are NaN, whose toString is 'NaN'.
PosHex(position) ==
  LET x == Number(position)
  IN PadStart(IF x.nan THEN S_NaN ELSE ToHex(Max(0, Min(ZoomMax, x.n))), 4, "0")

\* The handlers that send one GET and report whether it resolved.
SingleGetOps ==
  {"zoom", "focus", "setFocusLock", "ptzReset", "zoomTo", "setOsdState", "osdNavigate",
   "setImageValue", "setOverlay", "setTrackPreset", "setIRChannel"}

SingleGetPath(op, a) ==
  IF op = "zoom" THEN <<"/cgi-bin/ptzctrl.cgi?ptzcmd&", a.dir, "&", a.spd>>
  ELSE IF op = "focus" THEN <<"/cgi-bin/ptzctrl.cgi?ptzcmd&", a.cmd, "&3">>
  ELSE IF op = "setFocusLock"
    THEN <<"/cgi-bin/param.cgi?ptzcmd&", IF a.lock THEN "lock_mfocus" ELSE "unlock_mfocus">>
  ELSE IF op = "ptzReset" THEN <<"/cgi-bin/param.cgi?pan_tiltdrive_reset">>
  ELSE IF op = "zoomTo"
    THEN <<"/cgi-bin/ptzctrl.cgi?ptzcmd&zoomto&", a.speed, "&", PosHex(a.position)>>
  ELSE IF op = "setOsdState"
    THEN <<"/cgi-bin/param.cgi?navigate_mode&", IF a.open THEN "OSD" ELSE "PTZ">>
  ELSE IF op = "osdNavigate" THEN <<"/cgi-bin/ptzctrl.cgi?ptzcmd&", a.cmd>>
  ELSE IF op = "setImageValue"
    THEN <<"/cgi-bin/ptzctrl.cgi?post_image_value&", a.param, "&", a.value>>
  ELSE IF op = "setOverlay" THEN <<"/cgi-bin/param.cgi?set_overlay&", a.param, "&", a.value>>
  ELSE IF op = "setTrackPreset"
    THEN <<"/cgi-bin/ptzctrl.cgi?post_image_value&trackpreset&", a.value>>
  ELSE <<"/cgi-bin/param.cgi?post_ir_info=&ir_id=", a.channel>>

\* A single-GET handler up to its await.
singleGet(c) ==
  IF c.ip = "mock" THEN Return(c, ReturnObject(Success))
  ELSE Issue([c EXCEPT !.pc = "get"], "httpGet", SingleGetPath(c.op, c.args))

\* A single-GET or single-POST handler after its await.
singleDone(c, out) ==
  LET c1 == Settle(c, Len(c.reads), out)
  IN IF out.state = "rejected" THEN Catch(c1, out.error)
     ELSE Return(c1, ReturnObject(Success))

\* parseInt(s1) || 5
ParseIntOr5(v) ==
  IF v.t = "number" THEN (IF v.n # 0 THEN v.n ELSE 5)
  ELSE IF v.t = "string" /\ v.s # << >> /\ ~IsNaN(v.s)
    THEN (IF DigitsValue(v.s) # 0 THEN DigitsValue(v.s) ELSE 5)
  ELSE 5

\* cmd === 'text'
Is(cmd, text) == cmd.t = "string" /\ cmd.s = text

\* The mock branch of camera:ptz: the simulated camera moves.
MockPtzMove(ptz, cmd, s1) ==
  LET speed == ParseIntOr5(s1) * 2 IN
  IF Is(cmd, S_up) THEN [ptz EXCEPT !.tilt = Min(50, @ + speed)]
  ELSE IF Is(cmd, S_down) THEN [ptz EXCEPT !.tilt = Max(0 - 50, @ - speed)]
  ELSE IF Is(cmd, S_left) THEN [ptz EXCEPT !.pan = Max(0 - 100, @ - speed)]
  ELSE IF Is(cmd, S_right) THEN [ptz EXCEPT !.pan = Min(100, @ + speed)]
  ELSE IF Is(cmd, S_upleft) THEN [ptz EXCEPT !.tilt = @ + speed, !.pan = @ - speed]
  ELSE IF Is(cmd, S_upright) THEN [ptz EXCEPT !.tilt = @ + speed, !.pan = @ + speed]
  ELSE IF Is(cmd, S_downleft) THEN [ptz EXCEPT !.tilt = @ - speed, !.pan = @ - speed]
  ELSE IF Is(cmd, S_downright) THEN [ptz EXCEPT !.tilt = @ - speed, !.pan = @ + speed]
  ELSE IF Is(cmd, S_home) THEN [ptz EXCEPT !.pan = 0, !.tilt = 0]
  ELSE ptz

\* The path of a movement command.
PtzPath(cmd, s1, s2) ==
  LET lower == ToLowerCase(cmd.s) IN
  IF lower = S_home THEN <<"/cgi-bin/ptzctrl.cgi?ptzcmd&", cmd>>
  ELSE IF StartsWith(lower, S_pos) THEN <<"/cgi-bin/ptzctrl.cgi?ptzcmd&", cmd, "&", s1>>
  ELSE <<"/cgi-bin/ptzctrl.cgi?ptzcmd&", cmd, "&", s1, "&", s2>>

\* camera:ptz up to its await.
ptz(c) ==
  IF c.ip = "mock" THEN Return(c, ReturnObject(Success))
  ELSE IF c.args.cmd.t # "string" THEN Catch(c, NoToLowerCaseError)
  ELSE Issue([c EXCEPT !.pc = "ptz"], "httpGet", PtzPath(c.args.cmd, c.args.s1, c.args.s2))

\* camera:ptz after its await.
ptzDone(c, out) ==
  LET c1 == Settle(c, Len(c.reads), out)
  IN IF out.state = "rejected" THEN Catch(c1, out.error)
     ELSE IF Includes(out.value, S_401) \/ Includes(out.value, S_Unauthorized)
       THEN Return(c1, ReturnObject(Failure("Authentication required for PTZ control")))
     ELSE Return(c1, ReturnObject(Success))

\* camera:setAutoTracking up to its first await.
setAutoTracking(c) ==
  IF c.ip = "mock" THEN Return(c, ReturnObject(Success))
  ELSE Issue([c EXCEPT !.pc = "g3"], "httpGet",
             <<"/cgi-bin/param.cgi?set_overlay&autotracking&",
               IF c.args.enabled THEN "on" ELSE "off">>)

\* A G3 attempt whose failure is reported at once, with no second attempt.
autoTrackingG3NoFallback(c, out) ==
  LET c1 == Settle(c, Len(c.reads), out)
  IN IF out.state = "resolved" THEN Return(c1, ReturnObject(Success))
     ELSE Catch(c1, out.error)

\* camera:setAutoTracking after the G3 request.
autoTrackingG3(c, out) ==
  LET c1 == Settle(c, Len(c.reads), out)
  IN IF out.state = "resolved" THEN Return(c1, ReturnObject(Success))
     ELSE Issue([c1 EXCEPT !.pc = "g2"], "httpGet",
                <<"/cgi-bin/ptzctrl.cgi?post_image_value&autotrack&",
                  IF c.args.enabled THEN NumVal(2) ELSE NumVal(3)>>)

SnapshotOps == {"snapshot", "saveSnapshot"}

\* Bodies shorter than this are sniffed for an HTML page.
SniffLimit == 1000

\* camera:snapshot and camera:saveSnapshot up to the first await.
snapshot(c, ptzNow) ==
  IF c.ip = "mock"
  THEN IF c.op = "snapshot"
       THEN Return(c, ReturnObject(
              [success |-> TRUE,
               data |-> [svg |-> [cx |-> 160 - ptzNow.pan * 2, cy |-> 120 + ptzNow.tilt * 2,
                                  pan |-> ptzNow.pan, tilt |-> ptzNow.tilt]],
               mime |-> "image/svg+xml"]))
       ELSE Return(c, ReturnObject(Failure("Snapshots not available in mock mode")))
  ELSE Issue([c EXCEPT !.pc = "snap1"], "httpGetBinary", <<"/cgi-bin/snapshot.cgi">>)

\* A handler that returns whatever bytes it received as the image.
snapshotNoSniff(c, buf) ==
  IF c.op = "snapshot"
  THEN Return(c, ReturnObject([success |-> TRUE, data |-> [base64 |-> buf]]))
  ELSE Return(c, ReturnObject(
         [success |-> TRUE, data |-> [base64 |-> buf], mime |-> "image/jpeg"]))

\* The handlers once they hold the image's bytes.
snapshotSniff(c, buf) ==
  LET isPage == /\ BufferLength(buf) < SniffLimit
                /\ Includes(buf.text, S_doctype) \/ Includes(buf.text, S_html)
  IN IF c.op = "snapshot"
     THEN IF isPage
          THEN IF Includes(buf.text, S_401) \/ Includes(buf.text, S_Unauthorized)
               THEN Return(c, ReturnObject(Failure("Authentication required for snapshots")))
               ELSE Return(c, ReturnObject(
                      Failure("Camera returned error page instead of image")))
          ELSE Return(c, ReturnObject([success |-> TRUE, data |-> [base64 |-> buf]]))
     ELSE IF isPage
          THEN Return(c, ReturnObject(
                 Failure("Authentication required or endpoint not supported")))
          ELSE Return(c, ReturnObject(
                 [success |-> TRUE, data |-> [base64 |-> buf], mime |-> "image/jpeg"]))

\* After the request for /cgi-bin/snapshot.cgi: a rejection leads to /snapshot.jpg.
snapshotFirst(c, out) ==
  LET c1 == Settle(c, Len(c.reads), out)
  IN IF out.state = "resolved" THEN snapshotSniff(c1, out.value)
     ELSE Issue([c1 EXCEPT !.pc = "snap2"], "httpGetBinary", <<"/snapshot.jpg">>)

\* After the request for /snapshot.jpg.
snapshotSecond(c, out) ==
  LET c1 == Settle(c, Len(c.reads), out)
  IN IF out.state = "resolved" THEN snapshotSniff(c1, out.value) ELSE Catch(c1, out.error)

PostParamOps == {"setVideoParam", "setAudioParam", "setNetworkParam"}

RECURSIVE JoinEntries(_)
\* Object.entries(params).map(([k, v]) => `${k}=${v}`).join('&') as pieces.
JoinEntries(entries) ==
  IF entries = << >> THEN << >>
  ELSE <<Head(entries)[1], "=", Head(entries)[2]>>
       \o (IF Len(entries) > 1 THEN <<"&">> ELSE << >>) \o JoinEntries(Tail(entries))

PostPrefix(op) ==
  IF op = "setVideoParam" THEN "/cgi-bin/param.cgi?post_media_video&"
  ELSE IF op = "setAudioParam" THEN "/cgi-bin/param.cgi?post_media_audio&"
  ELSE "/cgi-bin/param.cgi?post_network_other_conf&"

\* setVideoParam, setAudioParam, setNetworkParam up to the await.
postParams(c) ==
  IF c.ip = "mock" THEN Return(c, ReturnObject(Success))
  ELSE IF ~IsObject(c.args.params) THEN Catch(c, NotAnObjectError)
  ELSE Issue([c EXCEPT !.pc = "post"], "httpPost",
             <<PostPrefix(c.op)>> \o JoinEntries(c.args.params))

\* camera:reboot up to its await.
reboot(c) ==
  IF c.ip = "mock" THEN Return(c, ReturnObject(Success))
  ELSE Issue([c EXCEPT !.pc = "post"], "httpPost", <<"/cgi-bin/param.cgi?post_reboot">>)

\* camera:getVideoUrl
getVideoUrl(c) == Return(c, ReturnString(<<"http://", c.ip, "/video", c.args.index, ".mp4">>))

(* ------------------------------------------------------------------ *)
(* camera:visca and camera:discover                                    *)
(* ------------------------------------------------------------------ *)

T_inquiry == <<"8", "1", "0", "9", "0", "0", "0", "2", "f", "f">>

T_reply == <<"9", "0", "5", "0", "f", "f">>

\* The default port of camera:visca.
ViscaPort == 1259

\* The message of the TypeError of Buffer.from(undefined, 'hex').
BufferFromError == "The first argument must be of type string or an instance of Buffer"

\* The message of the error client.send throws for a port outside 1..65535.
BadPortError == "Port should be > 0 and < 65536"

ValidPort(port) == port > 0 /\ port < 65536

\* resolve(value): the first call settles the handler's promise, later ones do nothing.
Resolve(c, value) == IF c.ret.type = "none" THEN [c EXCEPT !.ret = value] ELSE c

\* A socket handler is through when its promise is settled, its timer is not armed
\* and its socket can receive nothing more.
UdpPc(c) ==
  IF /\ c.ret.type # "none" /\ c.udp.timer # "armed"
     /\ c.udp.socket # "open" \/ c.udp.sent = "no"
  THEN [c EXCEPT !.pc = "returned"] ELSE [c EXCEPT !.pc = "udp"]

\* client.close() on a socket that is open.
CloseSocket(c) == [c EXCEPT !.udp.socket = "closed", !.udp.closes = @ + 1]

\* client.close() on a socket already closed throws out of the callback that called
\* it: an uncaught exception, the rest of the callback does not run.
Uncaught(c) == [c EXCEPT !.udp.uncaught = @ + 1]

\* camera:visca: the executor of its promise.
visca(c) ==
  LET c1 == [c EXCEPT !.udp.socket = "open"] IN
  IF c.args.hexCmd.t # "string"
    THEN UdpPc(Resolve(c1, ReturnObject(Failure(BufferFromError))))
  ELSE IF ~ValidPort(c.args.port)
    THEN UdpPc(Resolve([c1 EXCEPT !.udp.timer = "armed"],
                       ReturnObject(Failure(BadPortError))))
  ELSE UdpPc([c1 EXCEPT !.udp.timer = "armed", !.udp.sent = "pending"])

\* The callback of client.send, with the error's message ("" when the send went well).
viscaSent(c, err) ==
  LET c1 == [c EXCEPT !.udp.sent = "done"] IN
  IF err = "" THEN UdpPc(c1)
  ELSE LET c2 == [c1 EXCEPT !.udp.timer = IF @ = "armed" THEN "cleared" ELSE @]
       IN IF c2.udp.socket # "open" THEN UdpPc(Uncaught(c2))
          ELSE UdpPc(Resolve(CloseSocket(c2), ReturnObject(Failure(err))))

\* The 'message' listener of camera:visca.
viscaMessage(c, msg) ==
  LET c1 == [c EXCEPT !.udp.got = TRUE,
                      !.udp.timer = IF @ = "armed" THEN "cleared" ELSE @]
  IN UdpPc(Resolve(CloseSocket(c1),
                   ReturnObject([success |-> TRUE, response |-> [hex |-> msg]])))

\* The 2 s timer of camera:visca.
viscaTimeout(c) ==
  LET c1 == [c EXCEPT !.udp.timer = "fired"]
  IN IF c1.udp.socket # "open" THEN UdpPc(Uncaught(c1))
     ELSE UdpPc(Resolve(CloseSocket(c1), ReturnObject(Failure("timeout"))))

\* The ports camera:discover sends its inquiry to.
DiscoverPorts == {1259, 5678}

\* camera:discover: the executor of its promise; bind's callback sends the inquiry to
\* both ports.
discover(c) ==
  UdpPc([c EXCEPT !.udp.socket = "open", !.udp.timer = "armed", !.udp.sent = "done"])

\* A 'message' listener that records every datagram's address.
discoverMessageNoFind(c, address) == [c EXCEPT !.udp.found = Append(@, [ip |-> address])]

\* The 'message' listener of camera:discover.
discoverMessage(c, address) ==
  IF \E i \in DOMAIN c.udp.found : c.udp.found[i].ip = address THEN c
  ELSE [c EXCEPT !.udp.found = Append(@, [ip |-> address])]

\* The 'error' listener of camera:discover.
discoverError(c) ==
  IF c.udp.socket # "open" THEN UdpPc(Uncaught(c))
  ELSE LET c1 == CloseSocket(c) IN UdpPc(Resolve(c1, ReturnArray(c1.udp.found)))

\* The 3 s timer of camera:discover.
discoverTimeout(c) ==
  LET c1 == [c EXCEPT !.udp.timer = "fired"]
  IN IF c1.udp.socket # "open" THEN UdpPc(Uncaught(c1))
     ELSE LET c2 == CloseSocket(c1) IN UdpPc(Resolve(c2, ReturnArray(c2.udp.found)))

(* ------------------------------------------------------------------ *)
(* Handler actions                                                     *)
(* ------------------------------------------------------------------ *)

\* The hosts a caller names: the simulated camera and a real one.
DispatchHosts == {"mock", "cam1"}

DispatchAuths == {NullAuth, Bob}

\* How a request made through httpGet can settle: with a body (of any status the
\* transport passes on) or with one of its error messages.
GetOutcomes ==
  {Resolved(b) : b \in {B_dev, B_img, B_exp, B_html}}
  \cup {Rejected(ErrorMessage("httpGet", ErrorOf("ECONNREFUSED"))),
        Rejected(RejectedError.message)}

\* How a request made through httpGetBinary can settle.
BinaryOutcomes ==
  {Resolved(buf) : buf \in {Buffer(B_jfif, 1996), Buffer(B_jfif, 496),
                            Buffer(B_html, 0), Buffer(B_page, 0),
                            Buffer(B_page, 977), Buffer(B_page, 978)}}
  \cup {Rejected("404 Not Found - endpoint not supported"),
        Rejected(ErrorMessage("httpGetBinary", ErrorOf("ECONNREFUSED")))}

\* How a request made through httpPost can settle: it resolves with the body of
\* whatever response arrives.
PostOutcomes ==
  {Resolved(b) : b \in {<< >>, B_html}}
  \cup {Rejected(ErrorMessage("httpPost", ErrorOf("ECONNREFUSED")))}

\* Objects a caller passes as params.
ParamSamples ==
  { NotAnObject, << >>,
    << <<"bright", NumVal(9)>> >>,
    << <<"bright", NumVal(9)>>, <<"hue", NullVal>> >> }

\* A fresh invocation.
NewCall(op, ip, auth, args) ==
  [IdleCall EXCEPT !.op = op, !.ip = ip, !.auth = auth, !.args = args]

Connect(ip, auth) ==
  /\ call.pc = "idle"
  /\ call' = connect(NewCall("connect", ip, auth, NoArgs), mockConfig)
  /\ UNCHANGED <<mockConfig, mockPtz, transportVars>>

ConnectDeviceSettles(out) ==
  /\ call.op = "connect" /\ call.pc = "device"
  /\ call' = connectDevice(call, out)
  /\ UNCHANGED <<mockConfig, mockPtz, transportVars>>

ConnectReadSettles(i, out) ==
  /\ call.op = "connect" /\ call.pc = "all"
  /\ i \in 2..4 /\ call.reads[i].state = "pending"
  /\ call' = connectRead(call, i, out)
  /\ UNCHANGED <<mockConfig, mockPtz, transportVars>>

GroupFetch(op, ip, auth) ==
  /\ call.pc = "idle"
  /\ call' = groupFetch(NewCall(op, ip, auth, NoArgs), mockConfig)
  /\ UNCHANGED <<mockConfig, mockPtz, transportVars>>

GroupReadSettles(i, out) ==
  /\ call.op \in GroupOps /\ call.pc = "all"
  /\ i \in DOMAIN call.reads /\ call.reads[i].state = "pending"
  /\ call' = groupRead(call, i, out)
  /\ UNCHANGED <<mockConfig, mockPtz, transportVars>>

SetParams(op, ip, params, auth) ==
  /\ call.pc = "idle"
  /\ call' = setParams(NewCall(op, ip, auth, [params |-> params]))
  /\ mockConfig' = IF ip = "mock" THEN Assign(mockConfig, EntriesOf(params)) ELSE mockConfig
  /\ UNCHANGED <<mockPtz, transportVars>>

SetParamsSettles(out) ==
  /\ call.pc = "loop"
  /\ call' = setParamsNext(call, out)
  /\ UNCHANGED <<mockConfig, mockPtz, transportVars>>

SyncAll(ip, imgP, expP, focP, auth) ==
  /\ call.pc = "idle"
  /\ call' = syncAll(NewCall("syncAll", ip, auth,
                             [imgP |-> imgP, expP |-> expP, focP |-> focP]))
  /\ mockConfig' =
       IF ip = "mock"
       THEN Assign(Assign(Assign(mockConfig, EntriesOf(imgP)), EntriesOf(expP)),
                   EntriesOf(focP))
       ELSE mockConfig
  /\ UNCHANGED <<mockPtz, transportVars>>

SyncAllSettles(out) ==
  /\ call.pc = "sync"
  /\ call' = syncNext(call, out)
  /\ UNCHANGED <<mockConfig, mockPtz, transportVars>>

SingleGet(op, ip, args, auth) ==
  /\ call.pc = "idle"
  /\ call' = singleGet(NewCall(op, ip, auth, args))
  /\ UNCHANGED <<mockConfig, mockPtz, transportVars>>

SingleGetSettles(out) ==
  /\ call.pc = "get"
  /\ call' = singleDone(call, out)
  /\ UNCHANGED <<mockConfig, mockPtz, transportVars>>

Ptz(ip, cmd, s1, s2, auth) ==
  /\ call.pc = "idle"
  /\ call' = ptz(NewCall("ptz", ip, auth, [cmd |-> cmd, s1 |-> s1, s2 |-> s2]))
  /\ mockPtz' = IF ip = "mock" THEN MockPtzMove(mockPtz, cmd, s1) ELSE mockPtz
  /\ UNCHANGED <<mockConfig, transportVars>>

PtzSettles(out) ==
  /\ call.pc = "ptz"
  /\ call' = ptzDone(call, out)
  /\ UNCHANGED <<mockConfig, mockPtz, transportVars>>

SetAutoTracking(ip, enabled, auth) ==
  /\ call.pc = "idle"
  /\ call' = setAutoTracking(NewCall("setAutoTracking", ip, auth, [enabled |-> enabled]))
  /\ UNCHANGED <<mockConfig, mockPtz, transportVars>>

AutoTrackingG3Settles(out) ==
  /\ call.pc = "g3"
  /\ call' = autoTrackingG3(call, out)
  /\ UNCHANGED <<mockConfig, mockPtz, transportVars>>

AutoTrackingG2Settles(out) ==
  /\ call.pc = "g2"
  /\ call' = singleDone(call, out)
  /\ UNCHANGED <<mockConfig, mockPtz, transportVars>>

Snapshot(op, ip, auth) ==
  /\ call.pc = "idle"
  /\ call' = snapshot(NewCall(op, ip, auth, NoArgs), mockPtz)
  /\ UNCHANGED <<mockConfig, mockPtz, transportVars>>

SnapshotFirstSettles(out) ==
  /\ call.pc = "snap1"
  /\ call' = snapshotFirst(call, out)
  /\ UNCHANGED <<mockConfig, mockPtz, transportVars>>

SnapshotSecondSettles(out) ==
  /\ call.pc = "snap2"
  /\ call' = snapshotSecond(call, out)
  /\ UNCHANGED <<mockConfig, mockPtz, transportVars>>

PostParams(op, ip, params, auth) ==
  /\ call.pc = "idle"
  /\ call' = postParams(NewCall(op, ip, auth, [params |-> params]))
  /\ UNCHANGED <<mockConfig, mockPtz, transportVars>>

Reboot(ip, auth) ==
  /\ call.pc = "idle"
  /\ call' = reboot(NewCall("reboot", ip, auth, NoArgs))
  /\ UNCHANGED <<mockConfig, mockPtz, transportVars>>

PostSettles(out) ==
  /\ call.pc = "post"
  /\ call' = singleDone(call, out)
  /\ UNCHANGED <<mockConfig, mockPtz, transportVars>>

GetVideoUrl(ip, index) ==
  /\ call.pc = "idle"
  /\ call' = getVideoUrl(NewCall("getVideoUrl", ip, NullAuth, [index |-> index]))
  /\ UNCHANGED <<mockConfig, mockPtz, transportVars>>

Visca(ip, hexCmd, port) ==
  /\ call.pc = "idle"
  /\ call' = visca(NewCall("visca", ip, NullAuth, [hexCmd |-> hexCmd, port |-> port]))
  /\ UNCHANGED <<mockConfig, mockPtz, transportVars>>

\* The send of camera:visca completes; it cannot fail once a reply has come.
ViscaSent(err) ==
  /\ call.op = "visca" /\ call.pc = "udp" /\ call.udp.sent = "pending"
  /\ err # "" => ~call.udp.got
  /\ call' = viscaSent(call, err)
  /\ UNCHANGED <<mockConfig, mockPtz, transportVars>>

ViscaMessage(msg) ==
  /\ call.op = "visca" /\ call.pc = "udp"
  /\ call.udp.socket = "open" /\ call.udp.sent # "no"
  /\ call' = viscaMessage(call, msg)
  /\ UNCHANGED <<mockConfig, mockPtz, transportVars>>

ViscaTimeout ==
  /\ call.op = "visca" /\ call.pc = "udp" /\ call.udp.timer = "armed"
  /\ call' = viscaTimeout(call)
  /\ UNCHANGED <<mockConfig, mockPtz, transportVars>>

Discover ==
  /\ call.pc = "idle"
  /\ call' = discover(NewCall("discover", "", NullAuth, NoArgs))
  /\ UNCHANGED <<mockConfig, mockPtz, transportVars>>

\* A datagram arrives from a responder's address and port.
DiscoverMessage(address, port) ==
  /\ call.op = "discover" /\ call.pc = "udp" /\ call.udp.socket = "open"
  /\ call' = [discoverMessage(call, address) EXCEPT
                !.udp.heard = @ \cup {<<address, port>>}]
  /\ UNCHANGED <<mockConfig, mockPtz, transportVars>>

DiscoverError ==
  /\ call.op = "discover" /\ call.pc = "udp" /\ call.udp.socket = "open"
  /\ call' = discoverError(call)
  /\ UNCHANGED <<mockConfig, mockPtz, transportVars>>

DiscoverTimeout ==
  /\ call.op = "discover" /\ call.pc = "udp" /\ call.udp.timer = "armed"
  /\ call' = discoverTimeout(call)
  /\ UNCHANGED <<mockConfig, mockPtz, transportVars>>

\* The caller has the handler's result; another invocation can follow.
Finish ==
  /\ call.pc = "returned"
  /\ call' = IdleCall
  /\ UNCHANGED <<mockConfig, mockPtz, transportVars>>

\* Arguments of the single-GET handlers.
SingleGetArgs(op) ==
  IF op = "zoom" THEN {[dir |-> StrVal(S_zoomin), spd |-> NumVal(3)]}
  ELSE IF op \in {"focus", "osdNavigate"}
    THEN {[cmd |-> StrVal(IF op = "focus" THEN S_focusin ELSE S_osd_back)]}
  ELSE IF op = "setFocusLock" THEN {[lock |-> TRUE], [lock |-> FALSE]}
  ELSE IF op = "ptzReset" THEN {NoArgs}
  ELSE IF op = "zoomTo"
    THEN {[position |-> p, speed |-> NumVal(7)] :
            p \in {NumVal(0 - 5), NumVal(255), NumVal(16384), NumVal(99999),
                   StrVal(<<"4", "2">>), Undefined}}
  ELSE IF op = "setOsdState" THEN {[open |-> TRUE], [open |-> FALSE]}
  ELSE IF op \in {"setImageValue", "setOverlay"}
    THEN {[param |-> StrVal(K_hue), value |-> NumVal(5)]}
  ELSE IF op = "setTrackPreset" THEN {[value |-> NumVal(1)]}
  ELSE {[channel |-> NumVal(2)]}

DispatchNext ==
  \/ \E ip \in DispatchHosts, auth \in DispatchAuths : Connect(ip, auth)
  \/ \E out \in GetOutcomes : ConnectDeviceSettles(out)
  \/ \E i \in 2..4, out \in GetOutcomes : ConnectReadSettles(i, out)
  \/ \E op \in GroupOps, ip \in DispatchHosts, auth \in DispatchAuths : GroupFetch(op, ip, auth)
  \/ \E i \in 1..4, out \in GetOutcomes : GroupReadSettles(i, out)
  \/ \E op \in SetLoopOps, ip \in DispatchHosts, params \in ParamSamples,
        auth \in DispatchAuths : SetParams(op, ip, params, auth)
  \/ \E out \in GetOutcomes : SetParamsSettles(out)
  \/ \E ip \in DispatchHosts, imgP \in ParamSamples,
        expP \in {NotAnObject, << <<"hue", NullVal>> >>}, auth \in DispatchAuths :
        SyncAll(ip, imgP, expP, << <<"bright", NumVal(9)>> >>, auth)
  \/ \E out \in GetOutcomes : SyncAllSettles(out)
  \/ \E op \in SingleGetOps, ip \in DispatchHosts, auth \in DispatchAuths :
        \E args \in SingleGetArgs(op) : SingleGet(op, ip, args, auth)
  \/ \E out \in GetOutcomes : SingleGetSettles(out)
  \/ \E ip \in DispatchHosts, auth \in DispatchAuths,
        cmd \in {StrVal(S_up), StrVal(T_Home), StrVal(S_poscall), Undefined} :
        Ptz(ip, cmd, NumVal(25), NumVal(5), auth)
  \/ \E out \in GetOutcomes : PtzSettles(out)
  \/ \E ip \in DispatchHosts, enabled \in BOOLEAN, auth \in DispatchAuths :
        SetAutoTracking(ip, enabled, auth)
  \/ \E out \in GetOutcomes : AutoTrackingG3Settles(out)
  \/ \E out \in GetOutcomes : AutoTrackingG2Settles(out)
  \/ \E op \in SnapshotOps, ip \in DispatchHosts, auth \in DispatchAuths : Snapshot(op, ip, auth)
  \/ \E out \in BinaryOutcomes : SnapshotFirstSettles(out)
  \/ \E out \in BinaryOutcomes : SnapshotSecondSettles(out)
  \/ \E op \in PostParamOps, ip \in DispatchHosts, params \in ParamSamples,
        auth \in DispatchAuths : PostParams(op, ip, params, auth)
  \/ \E ip \in DispatchHosts, auth \in DispatchAuths : Reboot(ip, auth)
  \/ \E out \in PostOutcomes : PostSettles(out)
  \/ \E ip \in DispatchHosts : GetVideoUrl(ip, NumVal(1))
  \/ \E ip \in DispatchHosts, hexCmd \in {StrVal(T_inquiry), Undefined},
        port \in {ViscaPort, 0} : Visca(ip, hexCmd, port)
  \/ \E err \in {"", "getaddrinfo ENOTFOUND mock"} : ViscaSent(err)
  \/ ViscaMessage(T_reply)
  \/ ViscaTimeout
  \/ Discover
  \/ \E address \in {"10.0.0.5", "10.0.0.6"}, port \in DiscoverPorts :
        DiscoverMessage(address, port)
  \/ DiscoverError
  \/ DiscoverTimeout
  \/ Finish

vars == <<authCache, req, call, mockConfig, mockPtz>>

\* The handlers at rest.
DispatchIdle == call = IdleCall /\ mockConfig = MOCK_config /\ mockPtz = MockPtz0

\* The transport on its own: calls of httpGet against one camera.
Init == TransportInit /\ DispatchIdle

Next == TransportNext

Spec == Init /\ [][Next]_vars

\* The handlers on their own: one invocation at a time, its requests settling as
\* httpGet, httpGetBinary and httpPost can settle them.
InitD == TransportInit /\ DispatchIdle

NextD == DispatchNext

SpecD == InitD /\ [][NextD]_vars

\* Digest challenges as the camera may send them: the algorithm absent or one of the
\* four supported ones (in either case of letters), the qop absent, empty, one value,
\* a list, a list with an empty first element, or a value after a blank, and the
\* opaque absent, empty or given.
DigestHeaders ==
  { [word |-> T_Digest,
     params |-> << <<"realm", T_x>>, <<"nonce", T_y>> >> \o a \o q \o o] :
      a \in { << >> } \cup { << <<"algorithm", v>> >> :
                v \in {S_MD5, S_MD5_SESS, S_SHA256, T_sha_sess} },
      q \in { << >> } \cup { << <<"qop", v>> >> :
                v \in { << >>, <<"a", "u", "t", "h">>, T_qop,
                        <<",", "a", "u", "t", "h">>, <<" ", "a", "u", "t", "h">> } },
      o \in { << >>, << <<"opaque", << >> >> >>, << <<"opaque", T_o>> >> } }

\* A call of buildDigestAuth on the challenge parsed from a header.
DigestCall(header, method) ==
  [IdleCall EXCEPT !.op = "buildDigestAuth", !.pc = "built", !.auth = Bob,
     !.args = [method |-> method, header |-> header,
               challenge |-> ParseAuthParams(header)]]

\* buildDigestAuth returns its header.
BuildDigest ==
  /\ call.op = "buildDigestAuth" /\ call.pc = "built"
  /\ \E cn \in Cnonces :
       call' = Return(call, ReturnObject(
                 buildDigestAuth(call.args.method, "/cgi-bin/param.cgi?get_image_conf",
                                 call.auth.username, call.auth.password,
                                 call.args.challenge, cn)))
  /\ UNCHANGED <<mockConfig, mockPtz, transportVars>>

\* buildDigestAuth on its own, applied to every sample challenge.
InitB ==
  /\ TransportInit /\ mockConfig = MOCK_config /\ mockPtz = MockPtz0
  /\ \E header \in DigestHeaders, method \in {S_GET, S_POST} :
       call = DigestCall(header, method)

NextB == BuildDigest

SpecB == InitB /\ [][NextB]_vars

\* The credentials and the errors of the specification of one call at a time.
LiveAuths == Auths \cup {Zoe}

LiveErrors == {ErrorOf(c) : c \in ErrorCodes}

\* The request a call has on the wire yields a response, an error or a timeout.
RequestEvent(s) ==
  \/ \E res \in Responses : CachedResponse(s, res)
  \/ \E res \in Responses, cn \in Cnonces : ProbeResponse(s, res, cn)
  \/ \E res \in Responses : RetryResponse(s, res)
  \/ \E res \in Responses : PostResponse(s, res)
  \/ \E err \in LiveErrors : RequestError(s, err)
  \/ RequestTimeout(s)

\* The three entry points of the transport, one call at a time.
NextL ==
  \/ \E api \in {"httpGet", "httpGetBinary"}, ip \in Hosts, path \in Paths,
        auth \in LiveAuths, cn \in Cnonces : HttpCall(1, api, ip, path, auth, cn)
  \/ \E ip \in Hosts, path \in Paths, auth \in LiveAuths, cn \in Cnonces :
        HttpPost(1, ip, path, auth, cn)
  \/ RequestEvent(1)
  \/ Collect(1)

\* Every request on the wire eventually yields one of its events.
SpecL == Init /\ [][NextL]_vars /\ WF_vars(RequestEvent(1))

(* ------------------------------------------------------------------ *)
(* Claims about the transport                                          *)
(* ------------------------------------------------------------------ *)

\* The headers of the request a slot has on the wire.
WireHeaders(s) == req[s].wire[1].headers

\* Whether a header set carries any authentication.
HasAuthHeader(h) == DOMAIN h \cap {"Authorization", "auth_tkt", "Cookie"} # {}

\* C1: once the cached-auth attempt of a call has met a 401, the entry it was built
\* from is no longer in authCache, the call has gone on to the unauthenticated request
\* of a fresh negotiation, and it settles only through that negotiation; the stale
\* entry is not in the cache when the call has completed.
C1_StaleEntryInvalidated ==
  \A s \in Slots :
    req[s].stale =>
      /\ req[s].pc \in {"probe", "retry", "done"}
      /\ Len(req[s].sent) >= 2 /\ req[s].sent[1] = "cached" /\ req[s].sent[2] = "probe"
      /\ req[s].pc = "probe" => ~HasAuthHeader(WireHeaders(s))
      /\ req[s].pc = "done" => req[s].result.via \in {"probe", "retry"}
      /\ \A h \in DOMAIN authCache : authCache[h].id # req[s].cachedId

C1_Witness ==
  \E s \in Slots :
    /\ req[s].stale /\ req[s].pc = "done"
    /\ req[s].sent = <<"cached", "probe", "retry">>
    /\ req[s].result.state = "resolved"
    /\ req[s].ip \in DOMAIN authCache

\* C2: one GET sends at most three HTTP requests, a cached attempt, a probe and a
\* retry, each at most once and in that order; a 401 on the retry ends the call with
\* the authentication failure.
C2_AtMostThreeRequests ==
  \A s \in Slots :
    /\ req[s].sent \in { << >>, <<"cached">>, <<"probe">>, <<"cached", "probe">>,
                         <<"probe", "retry">>, <<"cached", "probe", "retry">> }
    /\ req[s].stale => Cardinality({i \in DOMAIN req[s].sent : req[s].sent[i] = "probe"}) = 1
    /\ (req[s].pc = "done" /\ req[s].result.via = "retry" /\ req[s].lastStatus = 401) =>
          /\ req[s].result.state = "rejected"
          /\ req[s].result.error = "401 Unauthorized - check credentials"
    /\ req[s].pc = "done" => req[s].wire = << >>

C2_Witness ==
  \E s \in Slots :
    /\ req[s].pc = "done"
    /\ req[s].sent = <<"cached", "probe", "retry">>
    /\ req[s].lastStatus = 401
    /\ req[s].result.error = "401 Unauthorized - check credentials"

\* The scheme the specification selects for a challenge by its scheme word.
SchemeForWord(w) ==
  IF w \in {T_Digest, T_DIGEST} THEN "digest"
  ELSE IF w \in {T_Authn, T_AuthTkt} THEN "authn"
  ELSE IF w = T_Basic THEN "basic"
  ELSE ""

\* C3: a 401 with a recognised challenge selects that challenge's scheme for the retry,
\* and a retry answered with another status than 401 resolves the call with that
\* response and leaves in authCache, for the host, the scheme, challenge and cookie
\* of the negotiation.
C3_NegotiatedEntryCached ==
  [][\A s \in Slots :
       /\ (/\ req[s].pc = "probe" /\ req'[s].pc # "probe"
           /\ HasCred(req[s].auth) /\ req'[s].lastStatus = 401) =>
            \A res \in Responses :
              (res.status = 401 /\ SchemeForWord(res.www.word) # "") =>
                 \/ req'[s].pc = "retry" /\ req'[s].scheme = SchemeForWord(res.www.word)
                 \/ ~\E cn \in Cnonces : ProbeResponse(s, res, cn)
       /\ (req[s].pc = "retry" /\ req'[s].pc # "retry") =>
            \A res \in Responses :
              (res.status # 401 /\ RetryResponse(s, res))
              => /\ req'[s].pc = "done"
                 /\ req'[s].result.state = "resolved"
                 /\ req'[s].result.value = res.body
                 /\ req[s].ip \in DOMAIN authCache'
                 /\ req[s].scheme \in {"digest", "basic", "authn"}
                 /\ authCache'[req[s].ip].scheme = req[s].scheme
                 /\ authCache'[req[s].ip].challenge = req[s].challenge
                 /\ authCache'[req[s].ip].cookie = req[s].cookie
    ]_vars

C3_Witness ==
  \E s \in Slots :
    /\ req[s].pc = "done" /\ req[s].sent = <<"probe", "retry">>
    /\ req[s].result.state = "resolved" /\ req[s].lastStatus = 200
    /\ req[s].ip \in DOMAIN authCache
    /\ authCache[req[s].ip].scheme = "digest"
    /\ authCache[req[s].ip].challenge = [realm |-> T_x, nonce |-> T_y]

\* The text of T_tktCookie up to its first ';', and the base64 text in it.
T_tktCookieHead == <<"a", "u", "t", "h", "_", "t", "k", "t", "=", "b", "j", "B", "u", "Y", "2", "U", "h", "Y", "m", "9", "i", "I", "X", "R", "v", "a", "w", "=", "=">>

T_b64ticket == <<"b", "j", "B", "u", "Y", "2", "U", "h", "Y", "m", "9", "i", "I", "X", "R", "v", "a", "w", "=", "=">>

\* C4: a 401 on the authenticated retry rejects the call with the
\* authentication-rejected error, never resolves it, and writes nothing to authCache.
C4_RetryRejected ==
  [][\A s \in Slots :
       (/\ req[s].pc = "retry" /\ req'[s].pc # "retry"
        /\ \E res \in Challenges : RetryResponse(s, res))
       => /\ req'[s].pc = "done"
          /\ req'[s].result.state = "rejected"
          /\ req'[s].result.error = "401 Unauthorized - check credentials"
          /\ req'[s].result.value = << >>
          /\ authCache' = authCache
    ]_vars

C4_Witness ==
  \E s \in Slots :
    /\ req[s].pc = "done" /\ req[s].sent = <<"probe", "retry">>
    /\ req[s].lastStatus = 401
    /\ req[s].result.state = "rejected"
    /\ req[s].result.error = "401 Unauthorized - check credentials"
    /\ req[s].ip \notin DOMAIN authCache

\* The header word starts, case-insensitively, with none of the four scheme names.
NoKnownScheme(word) ==
  LET l == ToLowerCase(word)
  IN \A p \in {S_digest, S_authn, S_auth_tkt, S_basic} : ~StartsWith(l, p)

\* No Set-Cookie entry begins with 'auth_tkt='.
NoTktCookie(cookies) == \A i \in DOMAIN cookies : ~StartsWith(cookies[i], S_auth_tkt_eq)

\* C5: with a credential, a 401 whose header names no known scheme and that carries no
\* auth_tkt cookie rejects the call with the unknown-scheme error: no retry is sent,
\* the call is not resolved and authCache is left as it was.
C5_UnknownScheme ==
  [][\A s \in Slots :
       (req[s].pc = "probe" /\ req'[s].pc # "probe" /\ HasCred(req[s].auth)) =>
         \A res \in Challenges :
           (/\ NoKnownScheme(res.www.word) /\ NoTktCookie(res.cookies)
            /\ \E cn \in Cnonces : ProbeResponse(s, res, cn))
           => /\ req'[s].pc = "done"
              /\ req'[s].result.state = "rejected"
              /\ req'[s].result.error = "401 Unauthorized -- unknown auth scheme"
              /\ req'[s].sent = req[s].sent
              /\ req'[s].wire = << >>
              /\ authCache' = authCache
    ]_vars

C5_Witness ==
  \E s \in Slots :
    /\ req[s].pc = "done" /\ HasCred(req[s].auth)
    /\ req[s].sent = <<"probe">> /\ req[s].lastStatus = 401
    /\ req[s].result.state = "rejected"
    /\ req[s].result.error = "401 Unauthorized -- unknown auth scheme"

\* Texts of the form nonce!username!token.
SampleTickets == {T_ticket}

\* The value of a cookie: the text between its first '=' and its first ';'.
CookieValue(cookie) == BeforeFirst(AfterFirst(cookie, "="), ";")

\* C6: with a credential, a 401 without a known scheme word whose first auth_tkt cookie
\* holds base64(nonce!username!token) selects authn with that nonce as the challenge,
\* keeps the cookie up to its first ';', and sends the retry built from both.
C6_CookieFallback ==
  [][\A s \in Slots :
       (req[s].pc = "probe" /\ req'[s].pc # "probe" /\ HasCred(req[s].auth)) =>
         \A res \in Challenges, t \in SampleTickets :
           (/\ NoKnownScheme(res.www.word) /\ ~NoTktCookie(res.cookies)
            /\ CookieValue(FindTkt(res.cookies)[1]) = Base64EncodeString(t)
            /\ \E cn \in Cnonces : ProbeResponse(s, res, cn))
           => /\ req'[s].pc = "retry"
              /\ req'[s].scheme = "authn"
              /\ req'[s].challenge = [nonce |-> BeforeFirst(t, "!")]
              /\ req'[s].cookie = <<BeforeFirst(FindTkt(res.cookies)[1], ";")>>
              /\ req'[s].sent = Append(req[s].sent, "retry")
              /\ req'[s].wire[1].headers["auth_tkt"].nonce = BeforeFirst(t, "!")
              /\ req'[s].wire[1].headers["Cookie"] = BeforeFirst(FindTkt(res.cookies)[1], ";")
              /\ req'[s].wire[1].headers["User-From"] = "www"
    ]_vars

C6_Witness ==
  \E s \in Slots :
    /\ req[s].pc = "retry" /\ req[s].scheme = "authn"
    /\ req[s].challenge = [nonce |-> T_n0nce]
    /\ req[s].cookie = <<T_tktCookieHead>>
    /\ WireHeaders(s)["Cookie"] = T_tktCookieHead
    /\ WireHeaders(s)["auth_tkt"].nonce = T_n0nce
    /\ Base64EncodeString(T_ticket) = T_b64ticket

\* The body the modelled camera sends with a status.
BodyOf(status) == (CHOOSE res \in Responses : res.status = status).body

\* The call ended on the response to its unauthenticated request, which it passed on:
\* no credential was supplied, or the status was not 401.
PassedThrough(s) ==
  /\ req[s].pc = "done" /\ req[s].result.via = "probe" /\ req[s].lastStatus # 0
  /\ ~HasCred(req[s].auth) \/ req[s].lastStatus # 401

\* C7 as stated: whenever the unauthenticated request is passed on, it was the only
\* request of the call and the call did not touch authCache.
C7_Original ==
  \A s \in Slots :
    PassedThrough(s) =>
      /\ req[s].sent = <<"probe">>
      /\ ~req[s].stale
      /\ req[s].result.state = "resolved"
      /\ req[s].result.value = BodyOf(req[s].lastStatus)

\* C7, amended: the response to the unauthenticated request is passed on unchanged
\* (a 401 too when no credential was given) and that request carries no
\* authentication; it is the only request of the call, and the call leaves authCache
\* alone, when no credential was supplied or no cached attempt came before it; after
\* a 401 on a cached attempt it is the second request and the entry has been removed.
C7_StateAmended ==
  \A s \in Slots :
    /\ req[s].pc = "probe" => ~HasAuthHeader(WireHeaders(s))
    /\ ~HasCred(req[s].auth) => (~req[s].stale /\ req[s].sent \in {<< >>, <<"probe">>})
    /\ PassedThrough(s) =>
         /\ req[s].result.state = "resolved"
         /\ req[s].result.value = BodyOf(req[s].lastStatus)
         /\ ~req[s].stale => req[s].sent = <<"probe">>
         /\ req[s].stale => /\ req[s].sent = <<"cached", "probe">>
                            /\ \A h \in DOMAIN authCache : authCache[h].id # req[s].cachedId

C7_PassThroughAmended ==
  [][/\ C7_StateAmended'
     /\ \A s \in Slots :
          (req'[s] # req[s] /\ req[s].pc \in {"idle", "probe"}) => authCache' = authCache
    ]_vars

C7_Witness ==
  /\ \E s \in Slots :
       /\ PassedThrough(s) /\ ~HasCred(req[s].auth) /\ req[s].lastStatus = 401
       /\ req[s].result.state = "resolved" /\ req[s].result.value = B_401
  /\ \E s \in Slots :
       /\ PassedThrough(s) /\ req[s].stale /\ req[s].lastStatus = 200
       /\ req[s].sent = <<"cached", "probe">>

(* ------------------------------------------------------------------ *)
(* Claims about the handlers                                           *)
(* ------------------------------------------------------------------ *)

\* The channels that preload.js exposes to the caller as window.ptz.
ExposedOps ==
  {"connect", "getSettings", "setImageParam", "setExposureParam", "setFocusParam",
   "ptz", "zoom", "focus", "snapshot", "syncAll", "setAutoTracking", "saveSnapshot",
   "getVideoConfig", "setVideoParam", "setAudioParam", "setImageValue", "setOverlay",
   "setTrackPreset", "setNetworkParam", "setIRChannel", "reboot", "visca", "discover"}

\* A value of the form {success: true, ...} or {success: false, error}.
IsResult(ret) ==
  /\ ret.type = "object"
  /\ "success" \in DOMAIN ret.value
  /\ ret.value.success \in BOOLEAN
  /\ ~ret.value.success => "error" \in DOMAIN ret.value

AllFailed(c) == Len(c.reads) = 4 /\ \A i \in 1..4 : c.reads[i].state = "rejected"

\* The config reads of a connect that responded.
Responded(c) == {i \in 2..4 : c.reads[i].state = "resolved"}

\* C9: a connect to a camera reports failure exactly when all four reads failed, with
\* the first error recorded (the device-config read's, under its label); otherwise it
\* reports success with, for every key, the value of the last config read that
\* responded with the key, and with the default info when the device read failed.
C9_ConnectTolerant ==
  (call.op = "connect" /\ call.ip # "mock" /\ call.pc = "returned") =>
    /\ IsResult(call.ret)
    /\ ~call.ret.value.success <=> AllFailed(call)
    /\ AllFailed(call) => call.ret.value.error = "Device config: " \o call.reads[1].error
    /\ call.ret.value.success =>
         /\ DOMAIN call.ret.value.config =
              UNION {DOMAIN Parse(call.reads[i].value) : i \in Responded(call)}
         /\ \A k \in DOMAIN call.ret.value.config :
              \E i \in Responded(call) :
                /\ k \in DOMAIN Parse(call.reads[i].value)
                /\ call.ret.value.config[k] = Parse(call.reads[i].value)[k]
                /\ \A j \in Responded(call) :
                     j > i => k \notin DOMAIN Parse(call.reads[j].value)
         /\ call.reads[1].state = "rejected" =>
              call.ret.value.info =
                [model |-> StrVal(D_model), serial |-> StrVal(D_NA), firmware |-> StrVal(D_NA)]

C9_Witness ==
  /\ call.op = "connect" /\ call.ip # "mock" /\ call.pc = "returned"
  /\ call.reads[1].state = "rejected"
  /\ \A i \in 2..4 : call.reads[i].state = "resolved"
  /\ call.ret.value.success
  /\ call.ret.value.info.model = StrVal(D_model)
  /\ call.ret.value.config[K_bright] = NumVal(9)

\* C10 as stated: a group fetch on a camera reports failure, with the error of one of
\* its requests, when every request of the group failed, and success otherwise.
C10_GroupFetchFails ==
  (call.op \in GroupOps /\ call.ip # "mock" /\ call.pc = "returned") =>
    /\ (\E i \in DOMAIN call.reads : call.reads[i].state = "resolved")
         => call.ret.value.success
    /\ (\A i \in DOMAIN call.reads : call.reads[i].state = "rejected")
         => /\ ~call.ret.value.success
            /\ \E i \in DOMAIN call.reads : call.ret.value.error = call.reads[i].error

\* The set operations on a parameter group.
SetOps == SetLoopOps \cup PostParamOps

\* The parameters a request of a set operation carries: the keys among the pieces of
\* its path (prefix, key, separator, value, and for a joined list '&', key, '=', value
\* again).
ParamsCarried(path) == Cardinality({i \in DOMAIN path : i % 4 = 2})

\* C11 as stated: no request of a set operation on a camera carries more than one
\* parameter, at most one of its requests is pending at a time, and an operation that
\* reports success has sent a request for each pair of its params.
C11_SetSendsPairsSingly ==
  (call.op \in SetOps /\ call.ip # "mock") =>
    /\ \A i \in DOMAIN call.reads : ParamsCarried(call.reads[i].path) <= 1
    /\ Cardinality({i \in DOMAIN call.reads : call.reads[i].state = "pending"}) <= 1
    /\ (call.pc = "returned" /\ call.ret.value.success) =>
         Len(call.reads) >= Len(call.args.params)

\* The paths of camera:setAutoTracking's two attempts.
G3Path(enabled) ==
  <<"/cgi-bin/param.cgi?set_overlay&autotracking&", IF enabled THEN "on" ELSE "off">>

G2Path(enabled) ==
  <<"/cgi-bin/ptzctrl.cgi?post_image_value&autotrack&",
    IF enabled THEN NumVal(2) ELSE NumVal(3)>>

\* C12: setAutoTracking on a camera sends the G3 request first; when that fails it sends
\* the G2 request (2 for on, 3 for off) with the same credential, and only then; it
\* reports failure exactly when both attempts failed, with the second attempt's error.
C12_AutoTrackingFallback ==
  (call.op = "setAutoTracking" /\ call.ip # "mock") =>
    /\ Len(call.reads) \in {1, 2}
    /\ call.reads[1].path = G3Path(call.args.enabled)
    /\ call.reads[1].auth = call.auth
    /\ call.reads[1].state = "resolved" => Len(call.reads) = 1
    /\ call.reads[1].state = "rejected" => Len(call.reads) = 2
    /\ Len(call.reads) = 2 =>
         /\ call.reads[1].state = "rejected"
         /\ call.reads[2].path = G2Path(call.args.enabled)
         /\ call.reads[2].auth = call.reads[1].auth
    /\ call.pc = "returned" =>
         /\ IsResult(call.ret)
         /\ ~call.ret.value.success <=>
              (Len(call.reads) = 2 /\ call.reads[2].state = "rejected")
         /\ ~call.ret.value.success => call.ret.value.error = call.reads[2].error

C12_Witness ==
  /\ call.op = "setAutoTracking" /\ call.ip # "mock" /\ call.pc = "returned"
  /\ ~call.args.enabled /\ call.auth = Bob
  /\ Len(call.reads) = 2 /\ call.reads[1].state = "rejected"
  /\ call.reads[2].path[2] = NumVal(3) /\ call.reads[2].state = "resolved"
  /\ call.ret = ReturnObject(Success)

\* The bytes are those of an HTML document, as the handlers look for one.
IsHtml(buf) == Includes(buf.text, S_html) \/ Includes(buf.text, S_doctype)

\* C13: a snapshot whose body is shorter than 1000 bytes and holds '<html' or
\* '<!DOCTYPE' is reported as a failure and carries no image data; a shorter body
\* without them, and any body of 1000 bytes or more, is reported as success with the
\* base64 of exactly the bytes received.
C13_SnapshotSniff ==
  (/\ call.op \in SnapshotOps /\ call.ip # "mock" /\ call.pc = "returned"
   /\ LastRead(call).state = "resolved") =>
    LET buf == LastRead(call).value IN
    /\ IsResult(call.ret)
    /\ (BufferLength(buf) < 1000 /\ IsHtml(buf)) =>
         /\ ~call.ret.value.success
         /\ "data" \notin DOMAIN call.ret.value
    /\ (BufferLength(buf) >= 1000 \/ ~IsHtml(buf)) =>
         /\ call.ret.value.success
         /\ call.ret.value.data = [base64 |-> buf]

C13_Witness ==
  /\ call.op = "snapshot" /\ call.ip # "mock" /\ call.pc = "returned"
  /\ Len(call.reads) = 2 /\ LastRead(call).state = "resolved"
  /\ BufferLength(LastRead(call).value) = 500 /\ ~IsHtml(LastRead(call).value)
  /\ call.ret.value.success
  /\ call.ret.value.data = [base64 |-> Buffer(B_jfif, 496)]

RECURSIVE HexValue(_)
\* The number a text of lowercase hexadecimal digits denotes.
HexValue(h) ==
  IF h = << >> THEN 0
  ELSE 16 * HexValue(SubSeq(h, 1, Len(h) - 1))
       + (CHOOSE d \in 0..15 : HexDigits[d + 1] = h[Len(h)])

IsHex4(h) ==
  /\ Len(h) = 4
  /\ \A i \in 1..4 : \E d \in 1..16 : HexDigits[d] = h[i]

\* The target in the path of a zoomTo request.
ZoomTarget(r) == r.path[4]

\* C14 as stated: for every requested position the target zoomTo sends is four
\* lowercase hexadecimal digits whose value lies in 0..16384.
C14_ZoomTargetHex ==
  (call.op = "zoomTo" /\ call.reads # << >>) =>
    /\ IsHex4(ZoomTarget(call.reads[1]))
    /\ HexValue(ZoomTarget(call.reads[1])) \in 0..16384

\* No two entries of a list of {ip} name the same address.
NoRepeat(list) == \A i, j \in DOMAIN list : list[i].ip = list[j].ip => i = j

\* C15: the list camera:discover collects, and the array it resolves with, hold every
\* address a datagram came from once, whatever the number, order and ports of the
\* datagrams.
C15_DiscoverDistinct ==
  call.op = "discover" =>
    /\ NoRepeat(call.udp.found)
    /\ {call.udp.found[i].ip : i \in DOMAIN call.udp.found}
         = {h[1] : h \in call.udp.heard}
    /\ call.ret.type # "none" =>
         /\ call.ret.type = "array"
         /\ NoRepeat(call.ret.value)
         /\ \A i \in DOMAIN call.ret.value :
              \E h \in call.udp.heard : h[1] = call.ret.value[i].ip

C15_Witness ==
  /\ call.op = "discover" /\ call.pc = "returned"
  /\ {<<"10.0.0.5", 1259>>, <<"10.0.0.5", 5678>>, <<"10.0.0.6", 1259>>} = call.udp.heard
  /\ call.ret = ReturnArray(<<[ip |-> "10.0.0.6"], [ip |-> "10.0.0.5"]>>)

\* The calls of client.close() so far: those that closed the socket and those that
\* threw because it was closed already.
CloseCalls(c) == c.udp.closes + c.udp.uncaught

\* C16 as stated: camera:discover calls close on its socket at most once, on an error
\* or at the end of the window and never at both, and exactly once by the time it is
\* through.
C16_DiscoverClosesOnce ==
  call.op = "discover" =>
    /\ CloseCalls(call) <= 1
    /\ call.pc = "returned" => CloseCalls(call) = 1 /\ call.udp.socket = "closed"

\* C17 as stated: camera:visca calls close on its socket at most once, and when it is
\* through, on whatever path, the socket is closed and the promise is resolved.
C17_ViscaSocketReleased ==
  call.op = "visca" =>
    /\ CloseCalls(call) <= 1
    /\ call.pc = "returned" =>
         /\ call.udp.socket = "closed" /\ call.udp.closes = 1
         /\ IsResult(call.ret)

\* C18 as stated: every call of httpGet, httpGetBinary or httpPost eventually settles,
\* given that every request on the wire yields a response, an error or a timeout; and
\* a timeout ends the request and rejects the call with the timeout error.
C18_EventuallySettles ==
  /\ \A s \in Slots : (req[s].pc # "idle") ~> (req[s].pc = "done")
  /\ [][\A s \in Slots :
          (req[s].wire # << >> /\ RequestTimeout(s)) =>
            /\ req'[s].pc = "done" /\ req'[s].wire = << >>
            /\ req'[s].result.state = "rejected"
            /\ req'[s].result.error = "Request timed out"
       ]_vars

\* The kind of a transport failure by its code.
FailureKind(code) ==
  IF code = "ECONNREFUSED" THEN "refused"
  ELSE IF code \in {"EHOSTUNREACH", "ENETUNREACH"} THEN "unreachable"
  ELSE IF code = "ETIMEDOUT" THEN "timeout"
  ELSE "other"

\* C19 as stated: at every entry point a failure that is a refused connection, an
\* unreachable host or network, or a timeout rejects the call with a message of the
\* transport's own, the same for the failures of a kind and different between kinds;
\* every other error rejects it with the error's own message.
C19_ErrorsClassified ==
  [][\A s \in Slots : \A err \in LiveErrors :
       (req[s].wire # << >> /\ RequestError(s, err)) =>
         /\ req'[s].result.state = "rejected"
         /\ FailureKind(err.code) = "other" => req'[s].result.error = err.message
         /\ FailureKind(err.code) # "other" =>
              /\ req'[s].result.error # err.message
              /\ \A other \in LiveErrors :
                   (FailureKind(other.code) = FailureKind(err.code))
                   <=> (ErrorMessage(req[s].api, other) = req'[s].result.error)
    ]_vars

\* The challenge supplied a value for the parameter.
Carried(challenge, k) == k \in DOMAIN challenge /\ challenge[k] # << >>

\* C20 as stated: for each supported algorithm the header buildDigestAuth returns has
\* the qop, nc and cnonce fields exactly when the challenge carried a qop, and the
\* opaque field exactly when the challenge supplied an opaque.
C20_QopAndOpaque ==
  (call.op = "buildDigestAuth" /\ call.pc = "returned") =>
    LET h == call.ret.value.headerValue
        ch == call.args.challenge
    IN /\ Carried(ch, "qop") => {"qop", "nc", "cnonce"} \subseteq DOMAIN h
       /\ ~Carried(ch, "qop") => {"qop", "nc", "cnonce"} \cap DOMAIN h = {}
       /\ Carried(ch, "opaque") <=> "opaque" \in DOMAIN h

(* ------------------------------------------------------------------ *)
(* Claims about concurrency, POST, the cache and the mock camera       *)
(* ------------------------------------------------------------------ *)

\* C21 as stated: camera:connect issues its device-info, image, exposure and focus
\* reads together: once it has issued a request it has issued all four, so that no
\* request of the four waits for the device-info read to settle.
C21_ConnectReadsConcurrent ==
  (call.op = "connect" /\ call.reads # << >>) =>
    /\ Len(call.reads) = 4
    /\ call.reads[1].path = DeviceConfPath
    /\ \A i \in 2..4 : call.reads[i].path = ConnectPaths[i - 1]

\* A step in which slot s calls httpPost.
PostCalled(s) == req[s].pc = "idle" /\ req'[s].api = "httpPost"

\* C22 as stated: a call of httpPost sends exactly one HTTP request, a POST with
\* 'Content-Length: 0'; the request carries authentication exactly when the host had
\* a cache entry and a credential was supplied when it was built; a 401 is not
\* negotiated; and no step of the call changes authCache.
C22_Original ==
  /\ [](\A s \in Slots :
          (req[s].api = "httpPost" /\ req[s].pc # "idle") => req[s].sent = <<"post">>)
  /\ [][\A s \in Slots :
          (req[s].api = "httpPost" \/ PostCalled(s)) /\ req'[s] # req[s]
            => authCache' = authCache]_vars

\* C22: a call of httpPost sends at most one HTTP request and none only when building
\* the request threw, which rejects the call; the request is a POST with
\* 'Content-Length: 0' and 'Connection: close' that carries authentication exactly when
\* the host had a cache entry and a credential was supplied when it was built; any
\* response, a 401 included, resolves the call with its body and no further request;
\* and no step of the call changes authCache.
C22_PostSingleAttempt ==
  /\ [](\A s \in Slots :
          (req[s].api = "httpPost" /\ req[s].pc # "idle") =>
            /\ req[s].sent \in {<< >>, <<"post">>}
            /\ req[s].pc \in {"post", "done"}
            /\ req[s].sent = << >> <=>
                 (req[s].pc = "done" /\ req[s].result.via = "executor")
            /\ req[s].result.via = "executor" => req[s].result.state = "rejected"
            /\ req[s].pc = "post" =>
                 /\ req[s].wire[1].method = S_POST
                 /\ WireHeaders(s)["Content-Length"] = "0"
                 /\ WireHeaders(s)["Connection"] = "close")
  /\ [][\A s \in Slots :
          /\ (PostCalled(s) /\ req'[s].wire # << >>) =>
               (HasAuthHeader(req'[s].wire[1].headers)
                  <=> (req'[s].ip \in DOMAIN authCache /\ HasCred(req'[s].auth)))
          /\ \A res \in Responses :
               (req[s].api = "httpPost" /\ PostResponse(s, res)) =>
                 /\ req'[s].pc = "done" /\ req'[s].sent = <<"post">>
                 /\ req'[s].result.state = "resolved"
                 /\ req'[s].result.value = res.body
          /\ ((req[s].api = "httpPost" \/ PostCalled(s)) /\ req'[s] # req[s])
               => authCache' = authCache
       ]_vars

\* An authenticated POST answered with a 401: the call has resolved after its one
\* request and the entry it was built from is still cached.
C22_Witness ==
  \E s \in Slots :
    /\ req[s].api = "httpPost" /\ req[s].pc = "done"
    /\ HasCred(req[s].auth) /\ req[s].ip \in DOMAIN authCache
    /\ req[s].sent = <<"post">> /\ req[s].lastStatus = 401
    /\ req[s].result.state = "resolved" /\ req[s].result.value = B_401

\* The HA2 component of a Digest or Authn header: the last part hashed into its
\* response.
HA2Of(value) == value.response.of[Len(value.response.of)]

\* C23 as stated: the HA2 of a request sent with Digest authentication is the hash of
\* the method of that request (POST from httpPost, GET otherwise) and its uri; the
\* HA2 of a request sent with the vendor authn scheme is the hash of GET and its uri
\* whatever the method.
C23_DigestUsesRequestMethod ==
  \A s \in Slots :
    req[s].wire # << >> =>
      LET w == req[s].wire[1]
          h == w.headers
      IN /\ ("Authorization" \in DOMAIN h /\ h["Authorization"].scheme = "Digest") =>
              HA2Of(h["Authorization"]).of = <<Str(w.method), Str(w.path)>>
         /\ "auth_tkt" \in DOMAIN h =>
              HA2Of(h["auth_tkt"]).of = <<Str(S_GET), Str(w.path)>>

\* The movement operations.
MovementOps == {"ptz", "zoom", "focus", "zoomTo", "osdNavigate", "ptzReset"}

\* The body of a response reads as an authentication failure.
AuthFailureBody(body) == Includes(body, S_401) \/ Includes(body, S_Unauthorized)

\* C24 as stated: a movement operation whose request was answered with a body that
\* contains '401' or 'Unauthorized' reports {success: false} with an authentication
\* error, never {success: true}.
C24_BodyAuthFailureDetected ==
  ( /\ call.op \in MovementOps /\ call.pc = "returned" /\ call.reads # << >>
    /\ LastRead(call).state = "resolved" /\ AuthFailureBody(LastRead(call).value) ) =>
      /\ IsResult(call.ret)
      /\ ~call.ret.value.success
      /\ call.ret.value.error = "Authentication required for PTZ control"

\* The text is base64: every character is of the alphabet or the padding.
IsBase64(v) == \A i \in DOMAIN v : B64Val(v[i]) >= 0 \/ v[i] = "="

\* The text has the structure nonce!username!token.
IsTicket(t) == Cardinality({i \in DOMAIN t : t[i] = "!"}) >= 2

\* A cookie value that cannot be decoded to a ticket.
Undecodable(v) == ~IsBase64(v) \/ ~IsTicket(Base64DecodeToString(v))

\* C25 as stated: with a credential, a 401 without a known scheme word whose auth_tkt
\* cookie cannot be decoded ends the call with the unknown-scheme error: no authn
\* challenge is built, no retry is sent and nothing is thrown.
C25_UndecodableCookieIgnored ==
  [][\A s \in Slots :
       (req[s].pc = "probe" /\ req'[s].pc # "probe" /\ HasCred(req[s].auth)) =>
         \A res \in Challenges :
           (/\ NoKnownScheme(res.www.word) /\ ~NoTktCookie(res.cookies)
            /\ Undecodable(CookieValue(FindTkt(res.cookies)[1]))
            /\ \E cn \in Cnonces : ProbeResponse(s, res, cn))
           => /\ req'[s].pc = "done"
              /\ req'[s].result.state = "rejected"
              /\ req'[s].result.error = UnknownSchemeError.message
              /\ req'[s].sent = req[s].sent
              /\ req'[s].wire = << >>
    ]_vars

\* Calls of httpGet and of httpPost interleaved on the slots of the transport, all
\* against one host and one cache.
NextP ==
  \/ TransportNext
  \/ \E s \in Slots, ip \in Hosts, path \in Paths, auth \in Auths, cn \in Cnonces :
        HttpPost(s, ip, path, auth, cn)
  \/ \E s \in Slots, res \in Responses : PostResponse(s, res)

SpecP == Init /\ [][NextP]_vars

\* Slot s holds the authenticated retry of a GET to host h, sent with a credential
\* and built from the entry.
RetryBuiltFrom(s, h, entry) ==
  /\ req[s].pc = "retry" /\ req[s].api # "httpPost" /\ req[s].ip = h
  /\ HasCred(req[s].auth)
  /\ req[s].wire # << >> /\ req[s].wire[1].method = S_GET
  /\ HasAuthHeader(WireHeaders(s))
  /\ \E cn \in Cnonces :
       WireHeaders(s) = buildRetryHeaders(entry.scheme, req[s].path, req[s].auth,
                                          entry.challenge, entry.cookie, cn)

\* C26: every authCache entry has scheme digest, basic or authn, and an entry comes
\* into the cache (new or in place of another) only in the step in which the
\* authenticated retry of a GET to that host, built from that entry with a
\* credential, is answered with a status other than 401; no other step of a GET and
\* no step of a POST stores an entry.
C26_EntriesEarned ==
  /\ [](\A h \in DOMAIN authCache :
          h \in Hosts /\ authCache[h].scheme \in {"digest", "basic", "authn"})
  /\ [][\A h \in DOMAIN authCache' :
          (h \notin DOMAIN authCache \/ authCache'[h] # authCache[h]) =>
            \E s \in Slots :
              /\ RetryBuiltFrom(s, h, authCache'[h])
              /\ req'[s].pc = "done" /\ req'[s].result.via = "retry"
              /\ req'[s].lastStatus \notin {0, 401}
              /\ \A t \in Slots \ {s} : req'[t] = req[t]
       ]_vars

\* An entry earned by a GET is cached while a POST built from it is on the wire.
C26_Witness ==
  \E s \in Slots, t \in Slots :
    /\ req[s].pc = "done" /\ req[s].result.via = "retry" /\ req[s].lastStatus = 200
    /\ req[s].ip \in DOMAIN authCache /\ authCache[req[s].ip].scheme = "authn"
    /\ req[t].api = "httpPost" /\ req[t].pc = "post" /\ req[t].ip = req[s].ip
    /\ "auth_tkt" \in DOMAIN WireHeaders(t)

\* C27 as stated: when the cached-auth attempt of a call meets a 401, the invalidation
\* removes only the entry the attempt was built from: an entry that another call's
\* negotiation has stored for the host since the attempt was sent stays in authCache.
C27_InvalidationRemovesOwnEntry ==
  [][\A s \in Slots :
       (req[s].pc = "cached" /\ req'[s].stale) =>
         \A h \in DOMAIN authCache :
           authCache[h].id # req[s].cachedId =>
             (h \in DOMAIN authCache' /\ authCache'[h] = authCache[h])
    ]_vars

\* The transport call that carries the request a handler has just issued.
TransportCall(c, cache, cnonce) ==
  LET rd == LastRead(c)
      r == [IdleReq EXCEPT !.api = rd.api, !.ip = c.ip, !.path = rd.path, !.auth = rd.auth]
  IN IF rd.api = "httpPost" THEN httpPost(r, cache, cnonce) ELSE authGet(r, cache, cnonce)

\* A handler is invoked and runs to its await: its request goes to the transport.
HandlerCall(started, cnonce) ==
  /\ call.pc = "idle" /\ req[1].pc = "idle"
  /\ call' = started
  /\ req' = IF started.pc = "returned" THEN req
            ELSE [req EXCEPT ![1] = TransportCall(started, authCache, cnonce)]
  /\ UNCHANGED <<authCache, mockConfig, mockPtz>>

\* The promise of the request has settled: the handler resumes and returns.
HandlerSettles ==
  /\ call.pc \in {"post", "get", "ptz"} /\ req[1].pc = "done"
  /\ LET out == IF req[1].result.state = "resolved"
                THEN Resolved(req[1].result.value)
                ELSE Rejected(req[1].result.error)
     IN call' = IF call.pc = "ptz" THEN ptzDone(call, out) ELSE singleDone(call, out)
  /\ UNCHANGED <<authCache, req, mockConfig, mockPtz>>

\* The caller has the handler's result.
HandlerFinish ==
  /\ call.pc = "returned"
  /\ call' = IdleCall
  /\ req' = [req EXCEPT ![1] = IdleReq]
  /\ UNCHANGED <<authCache, mockConfig, mockPtz>>

\* Handlers of one request each, run through the transport against one camera: a
\* POST operation, the reboot, a single-GET movement and camera:ptz.
NextH ==
  \/ \E ip \in Hosts, auth \in DispatchAuths, cn \in Cnonces :
        HandlerCall(reboot(NewCall("reboot", ip, auth, NoArgs)), cn)
  \/ \E op \in PostParamOps, ip \in Hosts, auth \in DispatchAuths, cn \in Cnonces :
        HandlerCall(postParams(NewCall(op, ip, auth,
                                       [params |-> << <<"bright", NumVal(9)>> >>])), cn)
  \/ \E ip \in Hosts, auth \in DispatchAuths, cn \in Cnonces :
        HandlerCall(singleGet(NewCall("zoom", ip, auth,
                                      [dir |-> StrVal(S_zoomin), spd |-> NumVal(3)])), cn)
  \/ \E ip \in Hosts, auth \in DispatchAuths, cn \in Cnonces :
        HandlerCall(ptz(NewCall("ptz", ip, auth,
                                [cmd |-> StrVal(S_up), s1 |-> NumVal(5), s2 |-> NumVal(5)])), cn)
  \/ RequestEvent(1)
  \/ HandlerSettles
  \/ HandlerFinish

SpecH == Init /\ [][NextH]_vars

\* C28 as stated: an operation called with a credential whose last HTTP response had
\* status 401 does not return {success: true}, whether it is sent by GET or by POST.
C28_No401Success ==
  ( /\ call.pc = "returned" /\ call.reads # << >> /\ HasCred(call.auth)
    /\ req[1].lastStatus = 401 ) =>
      /\ IsResult(call.ret)
      /\ ~call.ret.value.success

\* The commands of the mock branch of camera:ptz.
MockCommands ==
  {S_up, S_down, S_left, S_right, S_upleft, S_upright, S_downleft, S_downright,
   S_home, S_ptzstop}

\* The simulated camera is moved only while it is within this distance of the
\* origin on both axes.
MockRange == 150

\* camera:ptz called on the simulated camera.
MockMove(cmd, s1) ==
  /\ mockPtz.pan \in (0 - MockRange)..MockRange
  /\ mockPtz.tilt \in (0 - MockRange)..MockRange
  /\ Ptz("mock", StrVal(cmd), s1, NumVal(5), NullAuth)

\* The simulated camera on its own, under every sequence of ptz commands.
NextM ==
  \/ \E cmd \in MockCommands, s1 \in {NumVal(5), NumVal(25)} : MockMove(cmd, s1)
  \/ Finish

SpecM == Init /\ [][NextM]_vars

\* C29 as stated: the position of the simulated camera stays within the documented
\* range, pan in -100..100 and tilt in -50..50, after every sequence of ptz commands.
C29_MockInRange ==
  /\ mockPtz.pan \in (0 - 100)..100
  /\ mockPtz.tilt \in (0 - 50)..50

====
